---------------------------- MODULE Spec2Model ----------------------------
(***************************************************************************)
(* The invite pages of partydispo-links as a state machine.                *)
(*                                                                         *)
(* variant = "A" is the current invite page, src/app/i/[token]/page.tsx;   *)
(* variant = "B" is the "Flow B" invite page, src/unnamed/part_001.        *)
(*                                                                         *)
(* The React component state is one variable per useState cell.  Every     *)
(* asynchronous function that is suspended at an await is a record in      *)
(* `runs` (an effect run or a handler invocation, with the values its      *)
(* closure captured), and every remote call that has been issued and has   *)
(* not answered yet is a record in `calls`.  An action is one synchronous  *)
(* piece of code: a click or an input event up to the first await, or the  *)
(* continuation that runs when a remote call answers, together with the    *)
(* effects React runs for the render that follows.  The backend is an      *)
(* external collaborator: the answer to a call is chosen among the answers *)
(* the client library can give (a value, an error value, an exception).    *)
(*                                                                         *)
(* Strings whose characters matter (form fields, the code field, error     *)
(* messages of the backend) are sequences: of one-character strings for    *)
(* the fields, of lower-case words for the messages.                       *)
(*                                                                         *)
(* The sex / gender selector of the form only feeds the profile payload    *)
(* and is left out.                                                        *)
(***************************************************************************)
EXTENDS Integers, Sequences, FiniteSets, TLC

VARIABLES
    variant,              \* which page is mounted: "A" or "B"
    mounted,              \* FALSE once the component was unmounted
    token,                \* the token the useMemo resolves for the current render
    nTokenChanges,        \* how many times the route token changed in this page view
    step, errorText, invite, previewTitle, previewDay,
    firstName, lastName, phone, email, otp,
    otpCooldownSec, otpCooldownTimerRef,
    busy, sessionUserId, resultStatus, pendingChoice,
    runs,                 \* async functions suspended at an await
    calls,                \* remote calls issued and not yet answered
    fnName,               \* the helper function or route handler under evaluation
    fnArg,                \* its argument
    fnRes                 \* << >> before the call, << value >> after it returned

vars == << variant, mounted, token, nTokenChanges,
           step, errorText, invite, previewTitle, previewDay,
           firstName, lastName, phone, email, otp,
           otpCooldownSec, otpCooldownTimerRef,
           busy, sessionUserId, resultStatus, pendingChoice,
           runs, calls, fnName, fnArg, fnRes >>

fnVars == << fnName, fnArg, fnRes >>
formVars == << firstName, lastName, phone, email, otp >>
rsvpVars == << resultStatus, pendingChoice >>
cooldownVars == << otpCooldownSec, otpCooldownTimerRef >>
previewVars == << previewTitle, previewDay >>
envVars == << variant, mounted, token, nTokenChanges, fnVars >>

-----------------------------------------------------------------------------
(* Bounds of the model, and numbers of the program *)

\* How many times the route token may change while the page stays mounted.
MaxTokenChanges == 1

\* How many async functions may be suspended when an auth event is delivered
\* (every event can start one more post-login lookup).
MaxRuns == 3

\* Longest string drawn, character by character, as the argument of a helper
\* function evaluated on its own.
MaxStrLen == 4

\* Longest email string drawn character by character ("a@a.a" has 5).
MaxEmailLen == 6

\* Longest query string of a request to an association endpoint.
MaxQueryLen == 3

\* Seconds the resend cooldown lasts after a successful send.
OtpCooldownDefault == 30

\* Digits of a one-time code.
OtpLen == 8

\* Digits normalizePhone keeps.
MaxPhoneDigits == 15

-----------------------------------------------------------------------------
(* Values *)

null == "null"
EmptyToken == ""
Tokens == {"t1", "t2"}
UserIds == {"u1"}

Digits == {"0", "1", "2", "3", "4", "5", "6", "7", "8", "9"}
Whitespace == {" "}

\* What the user can type into the form of step needAuth.
FirstNames == { <<>>, <<" ", "A">> }
LastNames  == { <<>>, <<"B">> }
PhoneInputs == { <<>>, <<"+", "3", " ", "9">> }
EmailInputs == { <<>>, <<"x">>, <<" ", "A", "@", "b", ".", "c">> }

\* What the user can type or paste into the code field.
OtpInputs == { <<>>,
               <<"1", "2", " ", "3", "4", "5", "6", "7">>,
               <<"1", "2", "3", "4", "5", "6", "7", "8">>,
               <<"1", "2", "3", "4", "5", "6", "7", "8", "9">> }

-----------------------------------------------------------------------------
(* String helpers of JavaScript, on sequences of characters *)

RECURSIVE Filter(_, _)
Filter(s, keep) ==
    IF s = <<>> THEN <<>>
    ELSE IF Head(s) \in keep THEN <<Head(s)>> \o Filter(Tail(s), keep)
         ELSE Filter(Tail(s), keep)

Slice(s, n) == IF Len(s) <= n THEN s ELSE SubSeq(s, 1, n)

RECURSIVE TrimLeft(_)
TrimLeft(s) ==
    IF s # <<>> /\ Head(s) \in Whitespace THEN TrimLeft(Tail(s)) ELSE s

RECURSIVE TrimRight(_)
TrimRight(s) ==
    IF s # <<>> /\ s[Len(s)] \in Whitespace
    THEN TrimRight(SubSeq(s, 1, Len(s) - 1)) ELSE s

Trim(s) == TrimRight(TrimLeft(s))

LowerOf(c) ==
    CASE c = "A" -> "a" [] c = "B" -> "b" [] c = "C" -> "c" [] c = "X" -> "x"
      [] OTHER -> c

ToLower(s) == [i \in 1..Len(s) |-> LowerOf(s[i])]

\* a test that wants no '.' after the '@'
isValidEmail_NoDot(e) ==
    LET s == ToLower(Trim(e))
        ats == {i \in 1..Len(s) : s[i] = "@"}
    IN /\ \A i \in 1..Len(s) : s[i] \notin Whitespace
       /\ Cardinality(ats) = 1
       /\ \E i \in ats : i > 1 /\ i < Len(s)

\* /^[^\s@]+@[^\s@]+\.[^\s@]+$/ on the trimmed, lower-cased string
isValidEmail(e) ==
    LET s == ToLower(Trim(e))
        ats == {i \in 1..Len(s) : s[i] = "@"}
    IN /\ \A i \in 1..Len(s) : s[i] \notin Whitespace
       /\ Cardinality(ats) = 1
       /\ \E i \in ats :
            /\ i > 1
            /\ \E j \in (i + 2)..(Len(s) - 1) : s[j] = "."

normalizePhone(p) ==
    LET cleaned == Trim(Filter(p, Digits \cup {"+"}))
    IN IF cleaned # <<>> /\ Head(cleaned) = "+"
       THEN <<"+">> \o Slice(Filter(Tail(cleaned), Digits), MaxPhoneDigits)
       ELSE Slice(Filter(cleaned, Digits), MaxPhoneDigits)

sanitizeOtp(code) == Slice(Trim(Filter(code, Digits)), OtpLen)


-----------------------------------------------------------------------------
(* Messages shown to the user (errorText), named by their Italian text *)

E_NO_TOKEN     == "Link non valido: token mancante o URL non corretta."
E_APP          == "L'app non e' ancora disponibile sugli store."
E_PREVIEW      == "Non riesco a caricare i dettagli dell'evento."
E_NOT_FOUND    == "Invito non trovato o non piu' valido."
E_EXPIRED      == "Questo invito e' scaduto."
E_LOOKUP       == "Non riesco a caricare tutti i dettagli dell'invito. Puoi comunque rispondere."
E_WAIT         == "Per sicurezza puoi richiedere un nuovo codice tra Ns."
E_FILL         == "Compila nome, cognome, telefono ed email."
E_EMAIL        == "Inserisci un'email valida."
E_LINK         == "Link non valido."
E_RATE         == "Hai richiesto troppi codici."
E_SEND         == "Non sono riuscito a inviare il codice. Riprova."
E_EMAIL_V      == "Email non valida."
E_OTP_LEN      == "Inserisci le 8 cifre del codice OTP."
E_CODE_EXPIRED == "Codice scaduto."
E_CODE_INVALID == "Codice non valido o scaduto. Assicurati di usare l'ULTIMO codice ricevuto."
E_SESSION      == "Accesso riuscito ma non riesco a inizializzare la sessione."
E_ACCESS       == "Accesso non riuscito. Riprova."
E_FILL_V       == "Compila nome, cognome e telefono."
E_UPSERT_GENDER == "OTP verificato correttamente. (gender)"
E_UPSERT_SEX   == "OTP verificato correttamente. (sex / schema cache)"
E_UPSERT_RLS   == "OTP verificato correttamente. (probabile RLS)"
E_CODE_CATCH   == "Codice non valido o scaduto. Controlla di aver inserito le 6 cifre ESATTE."
E_RESPOND      == "Non sono riuscito a registrare la risposta. Riprova."
E_INVITE_BAD   == "Invito non valido oppure scaduto."

-----------------------------------------------------------------------------
(* Error messages of the backend, as sequences of lower-case words *)

HasWord(msg, w) == \E i \in 1..Len(msg) : msg[i] = w

HasPhrase(msg, ph) ==
    \E i \in 0..(Len(msg) - Len(ph)) : \A k \in 1..Len(ph) : msg[i + k] = ph[k]

Numerals == {"0", "2", "5"}
ParseInt(w) == CASE w = "0" -> 0 [] w = "2" -> 2 [] w = "5" -> 5 [] OTHER -> 0

\* msg.match(/after\s+(\d+)\s+seconds/i): the positions of a match
AfterSecondsAt(msg) ==
    {i \in 1..(Len(msg) - 2) :
        msg[i] = "after" /\ msg[i + 1] \in Numerals /\ msg[i + 2] = "seconds"}

Min(S) == CHOOSE x \in S : \A y \in S : x <= y

\* /429|too many requests/i.test(msg) || /only request this after/i.test(msg)
IsRateLimit(msg) ==
    \/ HasWord(msg, "429")
    \/ HasPhrase(msg, <<"too", "many", "requests">>)
    \/ HasPhrase(msg, <<"only", "request", "this", "after">>)

SendErrMsgs ==
    { <<"failed", "to", "fetch">>,
      <<"429", "email", "rate", "limit", "exceeded">>,
      <<"too", "many", "requests">>,
      <<"you", "can", "only", "request", "this", "after", "5", "seconds">>,
      <<"you", "can", "only", "request", "this", "after", "0", "seconds">>,
      <<"retry", "after", "2", "seconds">> }

SessionErrMsgs == { <<"invalid", "refresh", "token">>, <<"network", "error">> }

VerifyErrMsgs == { <<"token", "has", "expired">>, <<"invalid", "otp">> }

UpsertErrMsgs ==
    { <<"could", "not", "find", "the", "gender", "column">>,
      <<"could", "not", "find", "the", "sex", "column">>,
      <<"pgrst204">>,
      <<"new", "row", "violates", "row", "level", "security">> }

OtherErrMsgs == { <<"error">> }

-----------------------------------------------------------------------------
(* fmtDay on sequences of characters.  `new Date(s)` must parse the Date     *)
(* Time String Format of the language; for any other string the engine may  *)
(* answer NaN or apply its own heuristics.  Two engines bracket what a      *)
(* browser can do: "strict" parses that format only, "lenient" also takes a *)
(* space for the 'T', a designator written z, +HHmm or +HH, a designator    *)
(* after a date without a time, and several designators (the last wins).    *)
(* A parsed date is kept as its calendar date, its time and its designator: *)
(* the day toLocaleDateString prints is the day of that instant.            *)

\* the argument null, told from every string
NullArg == << null >>

Engines == {"strict", "lenient"}

DigitVal(ch) ==
    CASE ch = "1" -> 1 [] ch = "2" -> 2 [] ch = "3" -> 3 [] ch = "4" -> 4
      [] ch = "5" -> 5 [] ch = "6" -> 6 [] ch = "7" -> 7 [] ch = "8" -> 8
      [] ch = "9" -> 9 [] OTHER -> 0

IsDigits(s) == \A i \in 1..Len(s) : s[i] \in Digits

Num2(s) == 10 * DigitVal(s[1]) + DigitVal(s[2])

\* s.replace(a, b) with a string pattern: the first occurrence only
RECURSIVE ReplaceFirst(_, _, _)
ReplaceFirst(s, a, b) ==
    IF s = <<>> THEN <<>>
    ELSE IF Head(s) = a THEN <<b>> \o Tail(s)
    ELSE <<Head(s)>> \o ReplaceFirst(Tail(s), a, b)

\* /[zZ]|[+-]\d{2}:?\d{2}$/.test(raw)
hasTz(raw) ==
    LET n == Len(raw) IN
    \/ \E i \in 1..n : raw[i] \in {"z", "Z"}
    \/ /\ n >= 6
       /\ raw[n - 5] \in {"+", "-"}
       /\ IsDigits(SubSeq(raw, n - 4, n - 3))
       /\ raw[n - 2] = ":"
       /\ IsDigits(SubSeq(raw, n - 1, n))
    \/ /\ n >= 5
       /\ raw[n - 4] \in {"+", "-"}
       /\ IsDigits(SubSeq(raw, n - 3, n))

NaN == [ok |-> FALSE, date |-> <<>>, time |-> <<>>, tz |-> <<>>]

\* a valid Date: tz is << >> when the string held no designator
Instant(d, t, z) == [ok |-> TRUE, date |-> d, time |-> t, tz |-> z]

UTC == <<"+", "0", "0", "0", "0">>

\* the offset of `raw + "+01:00"`
PlusOne == <<"+", "0", "1", "0", "0">>

\* YYYY-MM-DD, month and day in range
IsDate(s) ==
    /\ Len(s) = 10
    /\ IsDigits(SubSeq(s, 1, 4)) /\ s[5] = "-"
    /\ IsDigits(SubSeq(s, 6, 7)) /\ s[8] = "-"
    /\ IsDigits(SubSeq(s, 9, 10))
    /\ Num2(SubSeq(s, 6, 7)) \in 1..12
    /\ Num2(SubSeq(s, 9, 10)) \in 1..31

\* HH:mm or HH:mm:ss, in range
IsTime(s) ==
    /\ Len(s) \in {5, 8}
    /\ IsDigits(SubSeq(s, 1, 2)) /\ s[3] = ":" /\ IsDigits(SubSeq(s, 4, 5))
    /\ Num2(SubSeq(s, 1, 2)) \in 0..24
    /\ Num2(SubSeq(s, 4, 5)) \in 0..59
    /\ Len(s) = 8 =>
          /\ s[6] = ":" /\ IsDigits(SubSeq(s, 7, 8))
          /\ Num2(SubSeq(s, 7, 8)) \in 0..59

\* +HH:mm or -HH:mm, in range
IsOffset(s) ==
    /\ Len(s) = 6
    /\ s[1] \in {"+", "-"}
    /\ IsDigits(SubSeq(s, 2, 3)) /\ s[4] = ":" /\ IsDigits(SubSeq(s, 5, 6))
    /\ Num2(SubSeq(s, 2, 3)) \in 0..23
    /\ Num2(SubSeq(s, 5, 6)) \in 0..59

\* the designator of the Date Time String Format, << >> if s is none
IsoZone(s) ==
    IF s = <<"Z">> THEN UTC
    ELSE IF IsOffset(s) THEN <<s[1], s[2], s[3], s[5], s[6]>>
    ELSE <<>>

\* the characters of rest that make its time: HH:mm, or HH:mm:ss
TimeLen(rest) == IF Len(rest) >= 7 /\ rest[7] = ":" THEN 8 ELSE 5

\* the Date Time String Format: YYYY-MM-DD, then optionally T, a time and
\* optionally a designator
ParseIso(s) ==
    IF Len(s) < 10 \/ ~IsDate(SubSeq(s, 1, 10)) THEN NaN
    ELSE LET d == SubSeq(s, 1, 10)
             rest == SubSeq(s, 11, Len(s))
         IN IF rest = <<>> THEN Instant(d, <<>>, <<>>)
            ELSE IF Head(rest) # "T" \/ Len(rest) < 1 + TimeLen(rest) THEN NaN
            ELSE LET t == SubSeq(rest, 2, 1 + TimeLen(rest))
                     z == SubSeq(rest, 2 + TimeLen(rest), Len(rest))
                 IN IF ~IsTime(t) THEN NaN
                    ELSE IF z = <<>> THEN Instant(d, t, <<>>)
                    ELSE IF IsoZone(z) = <<>> THEN NaN
                    ELSE Instant(d, t, IsoZone(z))

\* how many characters at the head of s make one designator for the lenient
\* engine (Z, z, +HH:mm, +HHmm, +HH), 0 if none does
ZoneLen(s) ==
    IF s = <<>> THEN 0
    ELSE IF Head(s) \in {"z", "Z"} THEN 1
    ELSE IF Len(s) >= 6 /\ IsOffset(SubSeq(s, 1, 6)) THEN 6
    ELSE IF Len(s) >= 5 /\ Head(s) \in {"+", "-"} /\ IsDigits(SubSeq(s, 2, 5)) THEN 5
    ELSE IF Len(s) >= 3 /\ Head(s) \in {"+", "-"} /\ IsDigits(SubSeq(s, 2, 3)) THEN 3
    ELSE 0

LenientZone(s) ==
    CASE Len(s) = 1 -> UTC
      [] Len(s) = 6 -> <<s[1], s[2], s[3], s[5], s[6]>>
      [] Len(s) = 5 -> s
      [] OTHER      -> <<s[1], s[2], s[3], "0", "0">>

\* the designators at the end of a string: the last one, << >> if there is
\* none, <<"?">> if something else stands there
RECURSIVE LastZone(_, _)
LastZone(s, last) ==
    IF s = <<>> THEN last
    ELSE IF ZoneLen(s) = 0 THEN <<"?">>
    ELSE LastZone(SubSeq(s, ZoneLen(s) + 1, Len(s)),
                  LenientZone(SubSeq(s, 1, ZoneLen(s))))

ParseLenient(s) ==
    IF Len(s) < 10 \/ ~IsDate(SubSeq(s, 1, 10)) THEN NaN
    ELSE LET d == SubSeq(s, 1, 10)
             rest == SubSeq(s, 11, Len(s))
             timed == /\ rest # <<>> /\ Head(rest) \in {"T", " "}
                      /\ Len(rest) >= 1 + TimeLen(rest)
                      /\ IsTime(SubSeq(rest, 2, 1 + TimeLen(rest)))
             t == IF timed THEN SubSeq(rest, 2, 1 + TimeLen(rest)) ELSE <<>>
             zs == IF timed THEN SubSeq(rest, 2 + TimeLen(rest), Len(rest)) ELSE rest
         IN IF LastZone(zs, <<>>) = <<"?">> THEN NaN
            ELSE Instant(d, t, LastZone(zs, <<>>))

\* new Date(s)
DateParse(engine, s) ==
    IF ParseIso(s).ok THEN ParseIso(s)
    ELSE IF engine = "lenient" THEN ParseLenient(s)
    ELSE NaN

\* fmtDay in a given engine: NaN stands for the null it returns
fmtDayIn(engine, dateIso) ==
    IF dateIso = NullArg \/ dateIso = <<>> THEN NaN
    ELSE LET raw == Trim(dateIso)
         IN IF raw = <<>> THEN NaN
            ELSE IF hasTz(raw) THEN DateParse(engine, raw)
            ELSE DateParse(engine,
                           ReplaceFirst(raw, " ", "T") \o <<"+", "0", "1", ":", "0", "0">>)

Day1 == <<"2", "0", "2", "5", "-", "0", "6", "-", "0", "1">>
Day2 == <<"2", "0", "2", "5", "-", "0", "7", "-", "0", "2">>
Hour == <<"2", "1", ":", "0", "0">>
Secs == <<":", "0", "0">>
NotADate == <<"n", "o", "t", " ", "a", " ", "d", "a", "t", "e">>

-----------------------------------------------------------------------------
(* Rows of get_invite_public, and the dates fmtDay formats *)

TitleOf(tok) == IF tok = "t1" THEN "Party t1" ELSE "Party t2"
DateOf(tok)  == IF tok = "t1" THEN "2025-06-01 21:00" ELSE "2025-07-02T21:00:00Z"

\* the characters of the party_date of a row
CharsOf(dateIso) ==
    CASE dateIso = "2025-06-01 21:00"     -> Day1 \o <<" ">> \o Hour
      [] dateIso = "2025-07-02T21:00:00Z" -> Day2 \o <<"T">> \o Hour \o Secs \o <<"Z">>
      [] dateIso = "not a date"           -> NotADate
      [] OTHER                            -> NullArg

\* toLocaleDateString("it-IT", ...) of a Date
toLocaleDateString(parsed) ==
    CASE parsed.date = Day1 -> "dom 01 giu 2025"
      [] parsed.date = Day2 -> "mer 02 lug 2025"
      [] OTHER              -> "un giorno"

\* fmtDay on the dates of the rows: the three of them parse alike in every
\* engine
fmtDay(dateIso) ==
    LET parsed == fmtDayIn("strict", CharsOf(dateIso))
    IN IF parsed.ok THEN toLocaleDateString(parsed) ELSE null

NoRow == [token |-> EmptyToken, party_title |-> null, party_date |-> null,
          expires_at |-> "no row"]

RowsOf(tok) ==
    { [token |-> tok, party_title |-> TitleOf(tok), party_date |-> DateOf(tok),
       expires_at |-> null],
      [token |-> tok, party_title |-> TitleOf(tok), party_date |-> "not a date",
       expires_at |-> "past"],
      [token |-> tok, party_title |-> null, party_date |-> null,
       expires_at |-> "future"] }

\* a page that leaves expiry to the backend
IsExpired_Never(row) == FALSE

\* row.expires_at && Number.isFinite(exp) && exp < Date.now()
IsExpired(row) == row.expires_at = "past"

-----------------------------------------------------------------------------
(* Answers of the remote calls *)

Answer(k, m, u, rw, f) == [kind |-> k, msg |-> m, uid |-> u, row |-> rw, ok |-> f]

Plain(k) == Answer(k, <<>>, null, NoRow, FALSE)

Throws == { Answer("throw", m, null, NoRow, FALSE) : m \in OtherErrMsgs }

Errors(msgs) == { Answer("error", m, null, NoRow, FALSE) : m \in msgs }

Answers(c) ==
    CASE c.op = "getSession" ->
            { Answer("ok", <<>>, u, NoRow, FALSE) : u \in UserIds \cup {null} }
            \cup Errors(SessionErrMsgs) \cup Throws
      [] c.op = "signOut" -> { Plain("ok") } \cup Errors(OtherErrMsgs) \cup Throws
      [] c.op = "get_invite_public" ->
            { Answer("ok", <<>>, null, rw, FALSE) : rw \in RowsOf(c.tok) \cup {NoRow} }
            \cup Errors(OtherErrMsgs) \cup Throws
      [] c.op = "signInWithOtp" ->
            { Plain("ok") } \cup Errors(SendErrMsgs)
            \cup { Answer("throw", m, null, NoRow, FALSE) : m \in SendErrMsgs }
      [] c.op = "verifyOtp" ->
            { Answer("ok", <<>>, u, NoRow, FALSE) : u \in UserIds \cup {null} }
            \cup Errors(VerifyErrMsgs) \cup Throws
      [] c.op = "getUser" -> { Plain("ok") } \cup Errors(OtherErrMsgs) \cup Throws
      [] c.op = "upsert" -> { Plain("ok") } \cup Errors(UpsertErrMsgs) \cup Throws
      [] c.op = "respond_party_invite_auth" ->
            { Answer("ok", <<>>, null, NoRow, f) : f \in BOOLEAN }
            \cup Errors(OtherErrMsgs) \cup Throws

Failed(r) == r.kind \in {"error", "throw"}

-----------------------------------------------------------------------------
(* Suspended async functions and outstanding calls *)

Run(i, p, at, tk) ==
    [id |-> i, proc |-> p, pc |-> at, cancelled |-> FALSE, tok |-> tk,
     em |-> <<>>, code |-> <<>>, fn |-> <<>>, ln |-> <<>>, ph |-> <<>>,
     uid |-> null, choice |-> null,
     \* the `verify` of onVerifyCode: whether a verifyOtp succeeded, and the
     \* user of its payload
     verified |-> FALSE, vuid |-> null]

\* a call of operation o, awaited by run i at its position at
Call(i, o, at) ==
    [id |-> i, op |-> o, site |-> at, tok |-> EmptyToken, type |-> null,
     em |-> <<>>, code |-> <<>>, fn |-> <<>>, ln |-> <<>>, ph |-> <<>>,
     uid |-> null, status |-> null]

RunOf(c) == CHOOSE x \in runs : x.id = c.id

FreshId(rs) == Min({i \in 0..Cardinality(rs) : \A x \in rs : x.id # i})

EffectProcs == {"boot", "preview", "lookup"}
HandlerProcs == {"send", "verify", "respond"}

\* the cleanup functions: cancelled = true
Cancel(rs, procs) ==
    { IF x.proc \in procs THEN [x EXCEPT !.cancelled = TRUE] ELSE x : x \in rs }

\* a run moves on to its next await
Goto(rs, x, at) == (rs \ {x}) \cup {[x EXCEPT !.pc = at]}

\* React ignores a state update of an unmounted component
Upd(old, new) == IF mounted THEN new ELSE old

-----------------------------------------------------------------------------
(* The render that follows a state update, and the effects it runs *)

\* The post-login lookup effect up to its await: the run and the call it adds
\* when the render it belongs to has step st, user id uid and token tk.
LookupStarts(st, uid, tk) ==
    /\ st = "ready"
    /\ variant = "B" => uid # null
    /\ tk # EmptyToken

LookupRun(rs, tk) == Run(FreshId(rs), "lookup", "rpc", tk)
LookupCall(rs, tk) == [Call(FreshId(rs), "get_invite_public", "rpc") EXCEPT !.tok = tk]

\* A continuation or an event handler ends having set step to st, sessionUserId
\* to uid and errorText to err, with rs suspended and cs outstanding.  React
\* renders; when a dependency of the post-login lookup effect changed, the
\* cleanup of its previous run is called and the effect runs again.
Render(st, uid, err, rs, cs) ==
    IF ~mounted
    THEN /\ UNCHANGED << step, sessionUserId, errorText >>
         /\ runs' = rs
         /\ calls' = cs
    ELSE LET changed == st # step \/ (variant = "B" /\ uid # sessionUserId)
             rs1 == IF changed THEN Cancel(rs, {"lookup"}) ELSE rs
             start == changed /\ LookupStarts(st, uid, token)
         IN /\ step' = st
            /\ sessionUserId' = uid
            /\ errorText' = IF start THEN null ELSE err
            /\ runs' = IF start THEN rs1 \cup {LookupRun(rs1, token)} ELSE rs1
            /\ calls' = IF start THEN cs \cup {LookupCall(rs1, token)} ELSE cs

\* The bootstrap effect and the preview effect up to their first await, for a
\* render with token tk: what they add to rs and cs, and the step they leave.
BootStarts(tk) == variant = "A" \/ tk # EmptyToken

BootRun(rs, tk) ==
    Run(FreshId(rs), "boot", IF variant = "A" THEN "clear" ELSE "session", tk)
BootCall(rs) ==
    Call(FreshId(rs), "getSession", IF variant = "A" THEN "clear" ELSE "session")

PreviewRun(rs, tk) == Run(FreshId(rs), "preview", "rpc", tk)
PreviewCall(rs, tk) == [Call(FreshId(rs), "get_invite_public", "rpc") EXCEPT !.tok = tk]

WithBoot(rs, tk) == IF BootStarts(tk) THEN rs \cup {BootRun(rs, tk)} ELSE rs
CallsWithBoot(rs, cs, tk) == IF BootStarts(tk) THEN cs \cup {BootCall(rs)} ELSE cs

WithPreview(rs, tk) == IF tk # EmptyToken THEN rs \cup {PreviewRun(rs, tk)} ELSE rs
CallsWithPreview(rs, cs, tk) ==
    IF tk # EmptyToken THEN cs \cup {PreviewCall(rs, tk)} ELSE cs

BootStep(tk) == IF BootStarts(tk) THEN "loading" ELSE "error"
BootError(tk) == IF BootStarts(tk) THEN null ELSE E_NO_TOKEN

-----------------------------------------------------------------------------
(* The state after the component was constructed and mounted *)

InitPage(v) ==
    /\ variant = v
    /\ mounted = TRUE
    /\ token \in {EmptyToken, "t1"}
    /\ nTokenChanges = 0
    /\ fnName = null
    /\ fnArg = << >>
    /\ fnRes = << >>
    /\ step = BootStep(token)
    /\ errorText = BootError(token)
    /\ invite = NoRow
    /\ previewTitle = "Evento"
    /\ previewDay = null
    /\ firstName = <<>> /\ lastName = <<>> /\ phone = <<>> /\ email = <<>>
    /\ otp = <<>>
    /\ otpCooldownSec = 0
    /\ otpCooldownTimerRef = FALSE
    /\ busy = FALSE
    /\ sessionUserId = null
    /\ resultStatus = null
    /\ pendingChoice = null
    \* the effects of the first commit, in source order
    /\ runs = WithPreview(WithBoot({}, token), token)
    /\ calls = CallsWithPreview(WithBoot({}, token), CallsWithBoot({}, {}, token), token)

Init == InitPage("A")

-----------------------------------------------------------------------------
(* Bootstrap effect of the current page *)

\* safeClearBrokenSession: does the answer of its getSession ask for a signOut?
BrokenSession(r) == r.kind = "error" /\ HasPhrase(r.msg, <<"refresh", "token">>)

\* a bootstrap that fetches the session without looking at the token
BootContinue_NoTokenCheck(x, c) ==
    Render(step, sessionUserId, errorText, Goto(runs, x, "session"),
           (calls \ {c}) \cup {Call(x.id, "getSession", "session")})

\* the bootstrap after `await safeClearBrokenSession()`
BootContinue(x, c) ==
    IF x.tok = EmptyToken
    THEN Render("error", sessionUserId, E_NO_TOKEN, runs \ {x}, calls \ {c})
    ELSE Render(step, sessionUserId, errorText, Goto(runs, x, "session"),
                (calls \ {c}) \cup {Call(x.id, "getSession", "session")})

BootAfterClear(c, r) ==
    LET x == RunOf(c) IN
    /\ x.proc = "boot" /\ x.pc = "clear"
    /\ IF BrokenSession(r)
       THEN Render(step, sessionUserId, errorText, Goto(runs, x, "signOut"),
                   (calls \ {c}) \cup {Call(x.id, "signOut", "signOut")})
       ELSE BootContinue(x, c)
    /\ UNCHANGED << envVars, invite, previewVars, formVars, cooldownVars, busy, rsvpVars >>

BootAfterSignOut(c, r) ==
    LET x == RunOf(c) IN
    /\ x.proc = "boot" /\ x.pc = "signOut"
    /\ BootContinue(x, c)
    /\ UNCHANGED << envVars, invite, previewVars, formVars, cooldownVars, busy, rsvpVars >>

\* a bootstrap that resumes a session it finds, as Flow B does
BootNextStep_Resume(uid) == IF uid # null THEN "ready" ELSE "needAuth"

\* the step the bootstrap leaves when the session fetch gave user id uid
BootNextStep(uid) == "needAuth"

BootAfterSession(c, r) ==
    LET x == RunOf(c) IN
    /\ variant = "A"
    /\ x.proc = "boot" /\ x.pc = "session"
    /\ IF x.cancelled
       THEN Render(step, sessionUserId, errorText, runs \ {x}, calls \ {c})
       ELSE IF r.kind = "throw"
            THEN Render("needAuth", sessionUserId, errorText, runs \ {x}, calls \ {c})
            ELSE Render(BootNextStep(r.uid), r.uid, errorText, runs \ {x}, calls \ {c})
    /\ UNCHANGED << envVars, invite, previewVars, formVars, cooldownVars, busy, rsvpVars >>

-----------------------------------------------------------------------------
(* Preview effect (the same code in both pages) *)

IsTitle(t) == t # null /\ t # ""

\* a preview that shows its row whether or not its effect was cleaned up
PreviewShown_NoGuard(x, r) == r.kind = "ok" /\ r.row # NoRow

\* `if (!cancelled && row)`
PreviewShown(x, r) == r.kind = "ok" /\ ~x.cancelled /\ r.row # NoRow

PreviewDone(c, r) ==
    LET x == RunOf(c)
        shown == PreviewShown(x, r)
        d == fmtDay(r.row.party_date)
    IN
    /\ x.proc = "preview"
    /\ Render(step, sessionUserId,
              IF r.kind = "error" /\ ~x.cancelled THEN E_PREVIEW ELSE errorText,
              runs \ {x}, calls \ {c})
    /\ previewTitle' = IF shown /\ IsTitle(r.row.party_title)
                       THEN Upd(previewTitle, r.row.party_title) ELSE previewTitle
    /\ previewDay' = IF shown /\ d # null THEN Upd(previewDay, d) ELSE previewDay
    /\ UNCHANGED << envVars, invite, formVars, cooldownVars, busy, rsvpVars >>

-----------------------------------------------------------------------------
(* Post-login lookup effect of the current page, after its await *)

\* a lookup whose cleaned-up runs set nothing
LookupDone_Quiet(c, r) ==
    LET x == RunOf(c)
        rs == runs \ {x}
        cs == calls \ {c}
    IN
    /\ variant = "A"
    /\ x.proc = "lookup"
    /\ IF Failed(r)
       THEN /\ Render(step, sessionUserId,
                      IF x.cancelled THEN errorText ELSE E_LOOKUP, rs, cs)
            /\ invite' = IF x.cancelled THEN invite ELSE Upd(invite, NoRow)
       ELSE IF x.cancelled
       THEN /\ Render(step, sessionUserId, errorText, rs, cs)
            /\ invite' = invite
       ELSE IF r.row = NoRow
       THEN /\ Render("error", sessionUserId, E_NOT_FOUND, rs, cs)
            /\ invite' = Upd(invite, NoRow)
       ELSE IF IsExpired(r.row)
       THEN /\ Render("error", sessionUserId, E_EXPIRED, rs, cs)
            /\ invite' = Upd(invite, NoRow)
       ELSE /\ Render(step, sessionUserId, errorText, rs, cs)
            /\ invite' = Upd(invite, r.row)
    /\ UNCHANGED << envVars, previewVars, formVars, cooldownVars, busy, rsvpVars >>

\* a lookup whose failure ends the flow on the error screen
LookupDone_FailureBlocks(c, r) ==
    LET x == RunOf(c)
        rs == runs \ {x}
        cs == calls \ {c}
    IN
    /\ variant = "A"
    /\ x.proc = "lookup"
    /\ IF Failed(r)
       THEN /\ Render(IF x.cancelled THEN step ELSE "error", sessionUserId,
                      IF x.cancelled THEN errorText ELSE E_LOOKUP, rs, cs)
            /\ invite' = IF x.cancelled THEN invite ELSE Upd(invite, NoRow)
       ELSE IF r.row = NoRow
       THEN /\ Render("error", sessionUserId, E_NOT_FOUND, rs, cs)
            /\ invite' = Upd(invite, NoRow)
       ELSE IF IsExpired(r.row)
       THEN /\ Render("error", sessionUserId, E_EXPIRED, rs, cs)
            /\ invite' = Upd(invite, NoRow)
       ELSE /\ Render(step, sessionUserId, errorText, rs, cs)
            /\ invite' = IF x.cancelled THEN invite ELSE Upd(invite, r.row)
    /\ UNCHANGED << envVars, previewVars, formVars, cooldownVars, busy, rsvpVars >>

LookupDone(c, r) ==
    LET x == RunOf(c)
        rs == runs \ {x}
        cs == calls \ {c}
    IN
    /\ variant = "A"
    /\ x.proc = "lookup"
    /\ IF Failed(r)
       THEN /\ Render(step, sessionUserId,
                      IF x.cancelled THEN errorText ELSE E_LOOKUP, rs, cs)
            /\ invite' = IF x.cancelled THEN invite ELSE Upd(invite, NoRow)
       ELSE IF r.row = NoRow
       THEN /\ Render("error", sessionUserId, E_NOT_FOUND, rs, cs)
            /\ invite' = Upd(invite, NoRow)
       ELSE IF IsExpired(r.row)
       THEN /\ Render("error", sessionUserId, E_EXPIRED, rs, cs)
            /\ invite' = Upd(invite, NoRow)
       ELSE /\ Render(step, sessionUserId, errorText, rs, cs)
            /\ invite' = IF x.cancelled THEN invite ELSE Upd(invite, r.row)
    /\ UNCHANGED << envVars, previewVars, formVars, cooldownVars, busy, rsvpVars >>

-----------------------------------------------------------------------------
(* onSendCode of the current page *)

\* send buttons that stay enabled while a handler is busy
SendEnabled_WhileBusy == step \in {"needAuth", "verifyCode"}

\* the two buttons that call onSendCode: "Invia codice OTP" and "Reinvia codice"
SendEnabled ==
    \/ step = "needAuth" /\ ~busy
    \/ step = "verifyCode" /\ ~(busy \/ otpCooldownSec > 0)

\* validations of onSendCode without the cooldown check
SendRefusal_NoCooldown ==
    LET fn == Trim(firstName)
        ln == Trim(lastName)
        ph == normalizePhone(phone)
        em == ToLower(Trim(email))
    IN IF fn = <<>> \/ ln = <<>> \/ ph = <<>> \/ em = <<>> THEN E_FILL
       ELSE IF ~isValidEmail(em) THEN E_EMAIL
       ELSE IF token = EmptyToken THEN E_LINK
       ELSE null

\* the message of the first validation that fails, null when none does
SendRefusal ==
    LET fn == Trim(firstName)
        ln == Trim(lastName)
        ph == normalizePhone(phone)
        em == ToLower(Trim(email))
    IN IF otpCooldownSec > 0 THEN E_WAIT
       ELSE IF fn = <<>> \/ ln = <<>> \/ ph = <<>> \/ em = <<>> THEN E_FILL
       ELSE IF ~isValidEmail(em) THEN E_EMAIL
       ELSE IF token = EmptyToken THEN E_LINK
       ELSE null

OnSendCode ==
    /\ variant = "A" /\ mounted
    /\ SendEnabled
    /\ IF SendRefusal # null
       THEN /\ Render(step, sessionUserId, SendRefusal, runs, calls)
            /\ busy' = FALSE
       ELSE LET id == FreshId(runs)
                em == ToLower(Trim(email))
            IN /\ Render(step, sessionUserId, null,
                         runs \cup {[Run(id, "send", "otp", token) EXCEPT !.em = em]},
                         calls \cup {[Call(id, "signInWithOtp", "otp") EXCEPT !.em = em]})
               /\ busy' = TRUE
    /\ UNCHANGED << envVars, invite, previewVars, formVars, cooldownVars, rsvpVars >>

\* a cooldown started after every answer
SendCooldown_Always(r) == OtpCooldownDefault

\* the seconds startOtpCooldown is called with after answer r, 0 when it is not called
SendCooldown(r) ==
    IF ~Failed(r) THEN OtpCooldownDefault
    ELSE IF IsRateLimit(r.msg)
         THEN LET m == AfterSecondsAt(r.msg)
                  sec == IF m # {} THEN ParseInt(r.msg[Min(m) + 1]) ELSE OtpCooldownDefault
              IN IF sec > 0 THEN sec ELSE 0
         ELSE 0

SendError(r) ==
    IF IsRateLimit(r.msg)
    THEN IF AfterSecondsAt(r.msg) # {} THEN E_WAIT ELSE E_RATE
    ELSE E_SEND

\* an onSendCode that asks for the code whatever the answer
SendDone_AlwaysAdvances(c, r) ==
    LET x == RunOf(c)
        rs == runs \ {x}
        cs == calls \ {c}
    IN
    /\ variant = "A"
    /\ x.proc = "send"
    /\ Render("verifyCode", sessionUserId,
              IF Failed(r) THEN SendError(r) ELSE errorText, rs, cs)
    /\ otp' = Upd(otp, <<>>)
    /\ IF SendCooldown(r) > 0
       THEN /\ otpCooldownSec' = Upd(otpCooldownSec, SendCooldown(r))
            /\ otpCooldownTimerRef' = TRUE
       ELSE UNCHANGED cooldownVars
    /\ busy' = Upd(busy, FALSE)
    /\ UNCHANGED << envVars, invite, previewVars, firstName, lastName, phone, email, rsvpVars >>

SendDone(c, r) ==
    LET x == RunOf(c)
        rs == runs \ {x}
        cs == calls \ {c}
    IN
    /\ variant = "A"
    /\ x.proc = "send"
    /\ IF Failed(r)
       THEN /\ Render(step, sessionUserId, SendError(r), rs, cs)
            /\ otp' = otp
       ELSE /\ Render("verifyCode", sessionUserId, errorText, rs, cs)
            /\ otp' = Upd(otp, <<>>)
    /\ IF SendCooldown(r) > 0
       THEN /\ otpCooldownSec' = Upd(otpCooldownSec, SendCooldown(r))
            /\ otpCooldownTimerRef' = TRUE
       ELSE UNCHANGED cooldownVars
    /\ busy' = Upd(busy, FALSE)
    /\ UNCHANGED << envVars, invite, previewVars, firstName, lastName, phone, email, rsvpVars >>

\* the interval callback of startOtpCooldown
Tick ==
    /\ mounted /\ otpCooldownTimerRef
    /\ LET next == IF otpCooldownSec - 1 > 0 THEN otpCooldownSec - 1 ELSE 0
       IN /\ otpCooldownSec' = next
          /\ otpCooldownTimerRef' = (next # 0)
    /\ UNCHANGED << envVars, step, errorText, invite, previewVars, formVars, busy,
                    sessionUserId, rsvpVars, runs, calls >>

-----------------------------------------------------------------------------
(* onVerifyCode of the current page *)

VerifyEnabled == step = "verifyCode" /\ ~busy

\* the click: everything up to the await of safeClearBrokenSession; the closure
\* of the handler holds the form fields of the render that was clicked
OnVerifyCode ==
    /\ variant = "A" /\ mounted
    /\ VerifyEnabled
    /\ LET id == FreshId(runs)
       IN Render(step, sessionUserId, null,
                 runs \cup {[Run(id, "verify", "clear", token) EXCEPT
                               !.em = email, !.code = otp,
                               !.fn = firstName, !.ln = lastName, !.ph = phone]},
                 calls \cup {Call(id, "getSession", "clear")})
    /\ busy' = TRUE
    /\ UNCHANGED << envVars, invite, previewVars, formVars, cooldownVars, rsvpVars >>

\* a return path on which the handler never settles
VerifyEnds_Hangs(x, c, err) ==
    /\ Render(step, sessionUserId, err, runs, calls \ {c})
    /\ UNCHANGED << envVars, invite, previewVars, formVars, cooldownVars, busy, rsvpVars >>

\* a return or a catch of the handler without the finally block
VerifyEnds_StaysBusy(x, c, err) ==
    /\ Render(step, sessionUserId, err, runs \ {x}, calls \ {c})
    /\ UNCHANGED << envVars, invite, previewVars, formVars, cooldownVars, busy, rsvpVars >>

\* a return or a catch of the handler: errorText is err, then finally setBusy(false)
VerifyEnds(x, c, err) ==
    /\ Render(step, sessionUserId, err, runs \ {x}, calls \ {c})
    /\ busy' = Upd(busy, FALSE)
    /\ UNCHANGED << envVars, invite, previewVars, formVars, cooldownVars, rsvpVars >>

\* the handler moves on to its next call
VerifyCalls(x, c, at, call) ==
    /\ Render(step, sessionUserId, errorText, Goto(runs, x, at), (calls \ {c}) \cup {call})
    /\ UNCHANGED << envVars, invite, previewVars, formVars, cooldownVars, busy, rsvpVars >>

\* a fallback that repeats the verifyOtp of type email
VerifyOtpCall_SameType(x, ty) ==
    [Call(x.id, "verifyOtp", IF ty = "email" THEN "otpEmail" ELSE "otpMagic") EXCEPT
        !.em = ToLower(Trim(x.em)), !.code = sanitizeOtp(x.code), !.type = "email"]

VerifyOtpCall(x, ty) ==
    [Call(x.id, "verifyOtp", IF ty = "email" THEN "otpEmail" ELSE "otpMagic") EXCEPT
        !.em = ToLower(Trim(x.em)), !.code = sanitizeOtp(x.code), !.type = ty]

\* a handler that sends whatever code it holds, without the length test
VerifyContinue_AnyLen(x, c) ==
    LET em == ToLower(Trim(x.em))
    IN IF ~isValidEmail(em) THEN VerifyEnds(x, c, E_EMAIL_V)
       ELSE VerifyCalls(x, c, "otpEmail", VerifyOtpCall(x, "email"))

\* the handler after `await safeClearBrokenSession()`
VerifyContinue(x, c) ==
    LET em == ToLower(Trim(x.em))
        code == sanitizeOtp(x.code)
    IN IF ~isValidEmail(em) THEN VerifyEnds(x, c, E_EMAIL_V)
       ELSE IF code = <<>> \/ Len(code) # OtpLen THEN VerifyEnds(x, c, E_OTP_LEN)
       ELSE VerifyCalls(x, c, "otpEmail", VerifyOtpCall(x, "email"))

VerifyAfterClear(c, r) ==
    LET x == RunOf(c) IN
    /\ x.proc = "verify" /\ x.pc = "clear"
    /\ IF BrokenSession(r)
       THEN VerifyCalls(x, c, "signOut", Call(x.id, "signOut", "signOut"))
       ELSE VerifyContinue(x, c)

VerifyAfterSignOut(c, r) ==
    LET x == RunOf(c) IN
    /\ x.proc = "verify" /\ x.pc = "signOut"
    /\ VerifyContinue(x, c)

\* a failed verification that shows nothing
VerifyError_Silent(r) == null

\* verify.error is set after both attempts
VerifyError(r) ==
    IF HasWord(r.msg, "expired") \/ HasWord(r.msg, "scaduto")
    THEN E_CODE_EXPIRED ELSE E_CODE_INVALID

\* a verifyOtp succeeded: the user of its payload is kept, the session is fetched
VerifyVerified(x, c, r) ==
    /\ Render(step, sessionUserId, errorText,
              (runs \ {x}) \cup {[x EXCEPT !.pc = "session", !.uid = r.uid,
                                             !.verified = TRUE, !.vuid = r.uid]},
              (calls \ {c}) \cup {Call(x.id, "getSession", "session")})
    /\ UNCHANGED << envVars, invite, previewVars, formVars, cooldownVars, busy, rsvpVars >>

\* a handler that falls back to magiclink after a thrown verifyOtp as well
VerifyAfterOtpEmail_AlwaysFallback(c, r) ==
    LET x == RunOf(c) IN
    /\ x.proc = "verify" /\ x.pc = "otpEmail"
    /\ CASE r.kind \in {"throw", "error"} ->
                VerifyCalls(x, c, "otpMagic", VerifyOtpCall(x, "magiclink"))
         [] r.kind = "ok" -> VerifyVerified(x, c, r)

VerifyAfterOtpEmail(c, r) ==
    LET x == RunOf(c) IN
    /\ x.proc = "verify" /\ x.pc = "otpEmail"
    /\ CASE r.kind = "throw" -> VerifyEnds(x, c, E_CODE_CATCH)
         [] r.kind = "error" -> VerifyCalls(x, c, "otpMagic", VerifyOtpCall(x, "magiclink"))
         [] r.kind = "ok"    -> VerifyVerified(x, c, r)

VerifyAfterOtpMagic(c, r) ==
    LET x == RunOf(c) IN
    /\ x.proc = "verify" /\ x.pc = "otpMagic"
    /\ CASE r.kind = "throw" -> VerifyEnds(x, c, E_CODE_CATCH)
         [] r.kind = "error" -> VerifyEnds(x, c, VerifyError(r))
         [] r.kind = "ok"    -> VerifyVerified(x, c, r)

\* a handler that goes on without setSessionUserId
VerifyAfterSession_KeepsUser(c, r) ==
    LET x == RunOf(c)
        uid == IF r.uid # null THEN r.uid ELSE x.uid
    IN
    /\ variant = "A"
    /\ x.proc = "verify" /\ x.pc = "session"
    /\ CASE r.kind = "throw" -> VerifyEnds(x, c, E_CODE_CATCH)
         [] r.kind = "error" -> VerifyEnds(x, c, E_SESSION)
         [] r.kind = "ok" /\ uid = null -> VerifyEnds(x, c, E_ACCESS)
         [] r.kind = "ok" /\ uid # null ->
              /\ Render(step, sessionUserId, errorText,
                        (runs \ {x}) \cup {[x EXCEPT !.pc = "getUser", !.uid = uid]},
                        (calls \ {c}) \cup {Call(x.id, "getUser", "getUser")})
              /\ UNCHANGED << envVars, invite, previewVars, formVars, cooldownVars,
                              busy, rsvpVars >>

VerifyAfterSession(c, r) ==
    LET x == RunOf(c)
        uid == IF r.uid # null THEN r.uid ELSE x.uid
    IN
    /\ variant = "A"
    /\ x.proc = "verify" /\ x.pc = "session"
    /\ CASE r.kind = "throw" -> VerifyEnds(x, c, E_CODE_CATCH)
         [] r.kind = "error" -> VerifyEnds(x, c, E_SESSION)
         [] r.kind = "ok" /\ uid = null -> VerifyEnds(x, c, E_ACCESS)
         [] r.kind = "ok" /\ uid # null ->
              /\ Render(step, uid, errorText,
                        (runs \ {x}) \cup {[x EXCEPT !.pc = "getUser", !.uid = uid]},
                        (calls \ {c}) \cup {Call(x.id, "getUser", "getUser")})
              /\ UNCHANGED << envVars, invite, previewVars, formVars, cooldownVars,
                              busy, rsvpVars >>

\* a payload whose id is not the user the handler found
ProfilePayload_NoUser(x) ==
    [Call(x.id, "upsert", "upsert") EXCEPT
        !.uid = null, !.fn = Trim(x.fn), !.ln = Trim(x.ln),
        !.ph = normalizePhone(x.ph), !.em = ToLower(Trim(x.em))]

ProfilePayload(x) ==
    [Call(x.id, "upsert", "upsert") EXCEPT
        !.uid = x.uid, !.fn = Trim(x.fn), !.ln = Trim(x.ln),
        !.ph = normalizePhone(x.ph), !.em = ToLower(Trim(x.em))]

VerifyAfterGetUser(c, r) ==
    LET x == RunOf(c)
        p == ProfilePayload(x)
    IN
    /\ x.proc = "verify" /\ x.pc = "getUser"
    /\ IF p.fn = <<>> \/ p.ln = <<>> \/ p.ph = <<>>
       THEN VerifyEnds(x, c, E_FILL_V)
       ELSE VerifyCalls(x, c, "upsert", p)

UpsertWarning(r) ==
    IF HasPhrase(r.msg, <<"could", "not", "find", "the", "gender", "column">>)
    THEN E_UPSERT_GENDER
    ELSE IF \/ HasPhrase(r.msg, <<"could", "not", "find", "the", "sex", "column">>)
            \/ HasWord(r.msg, "pgrst204")
         THEN E_UPSERT_SEX
         ELSE E_UPSERT_RLS

VerifyAfterUpsert(c, r) ==
    LET x == RunOf(c) IN
    /\ variant = "A"
    /\ x.proc = "verify" /\ x.pc = "upsert"
    /\ IF r.kind = "throw"
       THEN VerifyEnds(x, c, E_CODE_CATCH)
       ELSE /\ Render("ready", sessionUserId,
                      IF r.kind = "error" THEN UpsertWarning(r) ELSE errorText,
                      runs \ {x}, calls \ {c})
            /\ pendingChoice' = Upd(pendingChoice, null)
            /\ resultStatus' = Upd(resultStatus, null)
            /\ busy' = Upd(busy, FALSE)
            /\ UNCHANGED << envVars, invite, previewVars, formVars, cooldownVars >>

-----------------------------------------------------------------------------
(* onRespond of the current page *)

Choices == {"yes", "no"}

\* RSVP buttons shown on every screen
RespondEnabled_AnyStep == pendingChoice = null /\ ~busy

\* RSVP buttons that stay on the confirmation screen
RespondEnabled_AlsoDone == step \in {"ready", "done"} /\ ~busy

\* the two RSVP buttons are rendered and enabled
RespondEnabled == step = "ready" /\ pendingChoice = null /\ ~busy

RespondCalls(id, next) ==
    {[Call(id, "respond_party_invite_auth", "rpc") EXCEPT !.tok = token, !.status = next]}

OnRespond(next) ==
    /\ variant = "A" /\ mounted
    /\ RespondEnabled
    /\ LET id == FreshId(runs)
       IN Render(step, sessionUserId, null,
                 runs \cup {[Run(id, "respond", "rpc", token) EXCEPT !.choice = next]},
                 calls \cup RespondCalls(id, next))
    /\ pendingChoice' = next
    /\ busy' = TRUE
    /\ UNCHANGED << envVars, invite, previewVars, formVars, cooldownVars, resultStatus >>

\* an onRespond that resets pendingChoice on no path
RespondDone_KeepsPending(c, r) ==
    LET x == RunOf(c)
        rs == runs \ {x}
        cs == calls \ {c}
    IN
    /\ variant = "A"
    /\ x.proc = "respond"
    /\ IF Failed(r)
       THEN Render(step, sessionUserId, E_INVITE_BAD, rs, cs) /\ resultStatus' = resultStatus
       ELSE IF r.ok
       THEN Render("done", sessionUserId, errorText, rs, cs)
            /\ resultStatus' = Upd(resultStatus, x.choice)
       ELSE Render(step, sessionUserId, E_RESPOND, rs, cs) /\ resultStatus' = resultStatus
    /\ pendingChoice' = pendingChoice
    /\ busy' = Upd(busy, FALSE)
    /\ UNCHANGED << envVars, invite, previewVars, formVars, cooldownVars >>

RespondDone(c, r) ==
    LET x == RunOf(c)
        rs == runs \ {x}
        cs == calls \ {c}
    IN
    /\ variant = "A"
    /\ x.proc = "respond"
    /\ IF Failed(r)
       THEN /\ Render(step, sessionUserId, E_INVITE_BAD, rs, cs)
            /\ pendingChoice' = Upd(pendingChoice, null)
            /\ resultStatus' = resultStatus
       ELSE IF r.ok
       THEN /\ Render("done", sessionUserId, errorText, rs, cs)
            /\ resultStatus' = Upd(resultStatus, x.choice)
            /\ pendingChoice' = pendingChoice
       ELSE /\ Render(step, sessionUserId, E_RESPOND, rs, cs)
            /\ pendingChoice' = Upd(pendingChoice, null)
            /\ resultStatus' = resultStatus
    /\ busy' = Upd(busy, FALSE)
    /\ UNCHANGED << envVars, invite, previewVars, formVars, cooldownVars >>

-----------------------------------------------------------------------------
(* Input events and the "Scarica l'app" button *)

FormShown == mounted /\ step = "needAuth"

SetFirstName(v) ==
    /\ FormShown /\ v # firstName
    /\ firstName' = v
    /\ UNCHANGED << envVars, step, errorText, invite, previewVars, lastName, phone, email,
                    otp, cooldownVars, busy, sessionUserId, rsvpVars, runs, calls >>

SetLastName(v) ==
    /\ FormShown /\ v # lastName
    /\ lastName' = v
    /\ UNCHANGED << envVars, step, errorText, invite, previewVars, firstName, phone, email,
                    otp, cooldownVars, busy, sessionUserId, rsvpVars, runs, calls >>

SetPhone(v) ==
    /\ FormShown /\ v # phone
    /\ phone' = v
    /\ UNCHANGED << envVars, step, errorText, invite, previewVars, firstName, lastName,
                    email, otp, cooldownVars, busy, sessionUserId, rsvpVars, runs, calls >>

SetEmail(v) ==
    /\ FormShown /\ v # email
    /\ email' = v
    /\ UNCHANGED << envVars, step, errorText, invite, previewVars, firstName, lastName,
                    phone, otp, cooldownVars, busy, sessionUserId, rsvpVars, runs, calls >>

\* onChange of the code field
SetOtp(v) ==
    /\ variant = "A" /\ mounted /\ step = "verifyCode"
    /\ sanitizeOtp(v) # otp
    /\ otp' = sanitizeOtp(v)
    /\ UNCHANGED << envVars, step, errorText, invite, previewVars, firstName, lastName,
                    phone, email, cooldownVars, busy, sessionUserId, rsvpVars, runs, calls >>

\* onGetApp where no store link applies to the browser; its button is on the
\* screens of error, needAuth, ready and done
OnGetApp ==
    /\ variant = "A" /\ mounted /\ step \in {"error", "needAuth", "ready", "done"}
    /\ errorText # E_APP
    /\ errorText' = E_APP
    /\ UNCHANGED << envVars, step, invite, previewVars, formVars, cooldownVars, busy,
                    sessionUserId, rsvpVars, runs, calls >>

-----------------------------------------------------------------------------
(* The current page with a fixed token *)

\* a remote call answers and the function that awaits it runs on
Answered ==
    \/ \E c \in calls : \E r \in Answers(c) : BootAfterClear(c, r)
    \/ \E c \in calls : \E r \in Answers(c) : BootAfterSignOut(c, r)
    \/ \E c \in calls : \E r \in Answers(c) : BootAfterSession(c, r)
    \/ \E c \in calls : \E r \in Answers(c) : PreviewDone(c, r)
    \/ \E c \in calls : \E r \in Answers(c) : LookupDone(c, r)
    \/ \E c \in calls : \E r \in Answers(c) : SendDone(c, r)
    \/ \E c \in calls : \E r \in Answers(c) : VerifyAfterClear(c, r)
    \/ \E c \in calls : \E r \in Answers(c) : VerifyAfterSignOut(c, r)
    \/ \E c \in calls : \E r \in Answers(c) : VerifyAfterOtpEmail(c, r)
    \/ \E c \in calls : \E r \in Answers(c) : VerifyAfterOtpMagic(c, r)
    \/ \E c \in calls : \E r \in Answers(c) : VerifyAfterSession(c, r)
    \/ \E c \in calls : \E r \in Answers(c) : VerifyAfterGetUser(c, r)
    \/ \E c \in calls : \E r \in Answers(c) : VerifyAfterUpsert(c, r)
    \/ \E c \in calls : \E r \in Answers(c) : RespondDone(c, r)

UserActs ==
    \/ OnSendCode
    \/ OnVerifyCode
    \/ \E next \in Choices : OnRespond(next)
    \/ \E v \in FirstNames : SetFirstName(v)
    \/ \E v \in LastNames : SetLastName(v)
    \/ \E v \in PhoneInputs : SetPhone(v)
    \/ \E v \in EmailInputs : SetEmail(v)
    \/ \E v \in OtpInputs : SetOtp(v)
    \/ OnGetApp

Next == Answered \/ UserActs \/ Tick

Spec == Init /\ [][Next]_vars

\* call c answers r and the function that awaits it runs on
AnswerStep(c, r) ==
    \/ BootAfterClear(c, r) \/ BootAfterSignOut(c, r) \/ BootAfterSession(c, r)
    \/ PreviewDone(c, r) \/ LookupDone(c, r) \/ SendDone(c, r)
    \/ VerifyAfterClear(c, r) \/ VerifyAfterSignOut(c, r)
    \/ VerifyAfterOtpEmail(c, r) \/ VerifyAfterOtpMagic(c, r)
    \/ VerifyAfterSession(c, r) \/ VerifyAfterGetUser(c, r)
    \/ VerifyAfterUpsert(c, r) \/ RespondDone(c, r)

-----------------------------------------------------------------------------
(* Flow B, src/unnamed/part_001 *)

E_B_CODE_EMPTY == "Inserisci il codice."
E_B_COMPLETE   == "Completa i tuoi dati prima di continuare."
E_B_CODE       == "Codice non valido o scaduto. Riprova."
E_B_LOOKUP     == "Non riesco a caricare i dettagli dell'invito (permessi)."

B_normalizePhone(p) == Trim(Filter(p, Digits \cup {"+"}))

B_Choices == {"accepted", "declined"}

\* the bootstrap effect after `await supabase.auth.getSession()`
B_BootAfterSession(c, r) ==
    LET x == RunOf(c)
        rs == runs \ {x}
        cs == calls \ {c}
    IN
    /\ variant = "B"
    /\ x.proc = "boot" /\ x.pc = "session"
    /\ IF x.cancelled
       THEN Render(step, sessionUserId, errorText, rs, cs)
       ELSE IF r.kind = "throw"
            THEN Render("needAuth", sessionUserId, errorText, rs, cs)
            ELSE Render(IF r.uid # null THEN "ready" ELSE "needAuth", r.uid,
                        errorText, rs, cs)
    /\ UNCHANGED << envVars, invite, previewVars, formVars, cooldownVars, busy, rsvpVars >>

\* the onAuthStateChange listener, called with the user id of the event's session
B_AuthStateChange(uid) ==
    /\ variant = "B" /\ mounted
    /\ Cardinality(runs) < MaxRuns
    /\ uid # sessionUserId \/ (uid # null /\ step # "ready")
    /\ Render(IF uid # null THEN "ready" ELSE step, uid, errorText, runs, calls)
    /\ UNCHANGED << envVars, invite, previewVars, formVars, cooldownVars, busy, rsvpVars >>

\* the post-login lookup effect after its await
B_LookupDone(c, r) ==
    LET x == RunOf(c)
        rs == runs \ {x}
        cs == calls \ {c}
    IN
    /\ variant = "B"
    /\ x.proc = "lookup"
    /\ IF Failed(r)
       THEN /\ Render(step, sessionUserId,
                      IF x.cancelled THEN errorText ELSE E_B_LOOKUP, rs, cs)
            /\ invite' = IF x.cancelled THEN invite ELSE Upd(invite, NoRow)
       ELSE IF r.row = NoRow
       THEN /\ Render("error", sessionUserId, E_NOT_FOUND, rs, cs)
            /\ invite' = Upd(invite, NoRow)
       ELSE IF IsExpired(r.row)
       THEN /\ Render("error", sessionUserId, E_EXPIRED, rs, cs)
            /\ invite' = Upd(invite, NoRow)
       ELSE /\ Render(step, sessionUserId, errorText, rs, cs)
            /\ invite' = IF x.cancelled THEN invite ELSE Upd(invite, r.row)
    /\ UNCHANGED << envVars, previewVars, formVars, cooldownVars, busy, rsvpVars >>

B_SendRefusal ==
    LET e == ToLower(Trim(email))
        fn == Trim(firstName)
        ln == Trim(lastName)
        ph == B_normalizePhone(phone)
    IN IF fn = <<>> \/ ln = <<>> \/ ph = <<>> \/ e = <<>> THEN E_FILL
       ELSE IF ~isValidEmail(e) THEN E_EMAIL
       ELSE null

\* "Invia codice" and "Reinvia codice", both disabled={busy}
B_OnSendCode ==
    /\ variant = "B" /\ mounted
    /\ step \in {"needAuth", "verifyCode"} /\ ~busy
    /\ IF B_SendRefusal # null
       THEN /\ Render(step, sessionUserId, B_SendRefusal, runs, calls)
            /\ busy' = FALSE
       ELSE LET id == FreshId(runs)
                e == ToLower(Trim(email))
            IN /\ Render(step, sessionUserId, null,
                         runs \cup {[Run(id, "send", "otp", token) EXCEPT !.em = e]},
                         calls \cup {[Call(id, "signInWithOtp", "otp") EXCEPT
                                         !.em = e, !.tok = token]})
               /\ busy' = TRUE
    /\ UNCHANGED << envVars, invite, previewVars, formVars, cooldownVars, rsvpVars >>

B_SendDone(c, r) ==
    LET x == RunOf(c)
        rs == runs \ {x}
        cs == calls \ {c}
    IN
    /\ variant = "B"
    /\ x.proc = "send"
    /\ IF Failed(r)
       THEN Render(step, sessionUserId, E_SEND, rs, cs)
       ELSE Render("verifyCode", sessionUserId, errorText, rs, cs)
    /\ busy' = Upd(busy, FALSE)
    /\ UNCHANGED << envVars, invite, previewVars, formVars, cooldownVars, rsvpVars >>

B_SetOtp(v) ==
    /\ variant = "B" /\ mounted /\ step = "verifyCode"
    /\ v # otp
    /\ otp' = v
    /\ UNCHANGED << envVars, step, errorText, invite, previewVars, firstName, lastName,
                    phone, email, cooldownVars, busy, sessionUserId, rsvpVars, runs, calls >>

B_OnVerifyCode ==
    /\ variant = "B" /\ mounted
    /\ step = "verifyCode" /\ ~busy
    /\ LET id == FreshId(runs)
           e == ToLower(Trim(email))
           code == Trim(otp)
       IN IF code = <<>>
          THEN /\ Render(step, sessionUserId, E_B_CODE_EMPTY, runs, calls)
               /\ busy' = FALSE
          ELSE /\ Render(step, sessionUserId, null,
                         runs \cup {[Run(id, "verify", "b_otp", token) EXCEPT
                                        !.em = e, !.code = code, !.fn = firstName,
                                        !.ln = lastName, !.ph = phone]},
                         calls \cup {[Call(id, "verifyOtp", "b_otp") EXCEPT
                                         !.em = e, !.code = code, !.type = "email"]})
               /\ busy' = TRUE
    /\ UNCHANGED << envVars, invite, previewVars, formVars, cooldownVars, rsvpVars >>

B_ProfilePayload(x) ==
    [Call(x.id, "upsert", "b_upsert") EXCEPT
        !.uid = x.uid, !.fn = Trim(x.fn), !.ln = Trim(x.ln),
        !.ph = B_normalizePhone(x.ph), !.em = x.em]

\* onVerifyCode after `await supabase.auth.verifyOtp(...)`
B_VerifyAfterOtp(c, r) ==
    LET x == RunOf(c)
        rs == runs \ {x}
        cs == calls \ {c}
        y == [x EXCEPT !.pc = "b_upsert", !.uid = r.uid,
                       !.verified = TRUE, !.vuid = r.uid]
        p == B_ProfilePayload(y)
    IN
    /\ variant = "B"
    /\ x.proc = "verify" /\ x.pc = "b_otp"
    /\ IF Failed(r)
       THEN Render(step, sessionUserId, E_B_CODE, rs, cs) /\ busy' = Upd(busy, FALSE)
       ELSE IF r.uid = null
       THEN Render(step, sessionUserId, E_ACCESS, rs, cs) /\ busy' = Upd(busy, FALSE)
       ELSE IF p.fn = <<>> \/ p.ln = <<>> \/ p.ph = <<>> \/ p.em = <<>>
       THEN Render("needAuth", r.uid, E_B_COMPLETE, rs, cs) /\ busy' = Upd(busy, FALSE)
       ELSE Render(step, r.uid, errorText, rs \cup {y}, cs \cup {p}) /\ busy' = busy
    /\ UNCHANGED << envVars, invite, previewVars, formVars, cooldownVars, rsvpVars >>

\* onVerifyCode after the await of the profile upsert
B_VerifyAfterUpsert(c, r) ==
    LET x == RunOf(c)
        rs == runs \ {x}
        cs == calls \ {c}
    IN
    /\ variant = "B"
    /\ x.proc = "verify" /\ x.pc = "b_upsert"
    /\ IF Failed(r)
       THEN Render(step, sessionUserId, E_B_CODE, rs, cs)
       ELSE Render("ready", sessionUserId, errorText, rs, cs)
    /\ busy' = Upd(busy, FALSE)
    /\ UNCHANGED << envVars, invite, previewVars, formVars, cooldownVars, rsvpVars >>

B_OnRespond(next) ==
    /\ variant = "B" /\ mounted
    /\ step = "ready" /\ pendingChoice = null /\ ~busy
    /\ LET id == FreshId(runs)
       IN Render(step, sessionUserId, null,
                 runs \cup {[Run(id, "respond", "rpc", token) EXCEPT !.choice = next]},
                 calls \cup {[Call(id, "respond_party_invite_auth", "rpc") EXCEPT
                                 !.tok = token, !.status = next]})
    /\ pendingChoice' = next
    /\ busy' = TRUE
    /\ UNCHANGED << envVars, invite, previewVars, formVars, cooldownVars, resultStatus >>

\* an onRespond that takes every result without error for an accepted one
B_RespondDone_IgnoresOk(c, r) ==
    LET x == RunOf(c)
        rs == runs \ {x}
        cs == calls \ {c}
    IN
    /\ variant = "B"
    /\ x.proc = "respond"
    /\ IF Failed(r)
       THEN /\ Render(step, sessionUserId, E_INVITE_BAD, rs, cs)
            /\ pendingChoice' = Upd(pendingChoice, null)
            /\ resultStatus' = resultStatus
       ELSE /\ Render("done", sessionUserId, null, rs, cs)
            /\ resultStatus' = Upd(resultStatus, x.choice)
            /\ pendingChoice' = pendingChoice
    /\ busy' = Upd(busy, FALSE)
    /\ UNCHANGED << envVars, invite, previewVars, formVars, cooldownVars >>

B_RespondDone(c, r) ==
    LET x == RunOf(c)
        rs == runs \ {x}
        cs == calls \ {c}
    IN
    /\ variant = "B"
    /\ x.proc = "respond"
    /\ IF Failed(r)
       THEN /\ Render(step, sessionUserId, E_INVITE_BAD, rs, cs)
            /\ pendingChoice' = Upd(pendingChoice, null)
            /\ resultStatus' = resultStatus
       ELSE IF r.ok
       THEN /\ Render("done", sessionUserId, null, rs, cs)
            /\ resultStatus' = Upd(resultStatus, x.choice)
            /\ pendingChoice' = pendingChoice
       ELSE /\ Render(step, sessionUserId, E_RESPOND, rs, cs)
            /\ pendingChoice' = Upd(pendingChoice, null)
            /\ resultStatus' = resultStatus
    /\ busy' = Upd(busy, FALSE)
    /\ UNCHANGED << envVars, invite, previewVars, formVars, cooldownVars >>

-----------------------------------------------------------------------------
(* Leaving the page view, and a change of the route token *)

\* The component unmounts: the cleanup of every effect runs.
Unmount ==
    /\ mounted
    /\ mounted' = FALSE
    /\ runs' = Cancel(runs, EffectProcs)
    /\ otpCooldownTimerRef' = FALSE
    /\ UNCHANGED << variant, token, nTokenChanges, step, errorText, invite, previewVars,
                    formVars, otpCooldownSec, busy, sessionUserId, rsvpVars, calls,
                    fnVars >>

\* The route changes to the invite tk while the component stays mounted.  The
\* cleanups of the three effects run, then the effects run again in source
\* order with the state of this render: the bootstrap sets step to loading,
\* and the post-login lookup, started with the step of this render, is cleaned
\* up by the render that follows while its call is outstanding.
ChangeToken(tk) ==
    /\ mounted /\ nTokenChanges < MaxTokenChanges
    /\ token # EmptyToken /\ tk # token
    /\ LET rs0 == Cancel(runs, EffectProcs)
           rs1 == WithBoot(rs0, tk)
           cs1 == CallsWithBoot(rs0, calls, tk)
           rs2 == WithPreview(rs1, tk)
           cs2 == CallsWithPreview(rs1, cs1, tk)
           lk == LookupStarts(step, sessionUserId, tk)
       IN /\ runs' = IF lk THEN rs2 \cup {[LookupRun(rs2, tk) EXCEPT !.cancelled = TRUE]}
                     ELSE rs2
          /\ calls' = IF lk THEN cs2 \cup {LookupCall(rs2, tk)} ELSE cs2
    /\ token' = tk
    /\ nTokenChanges' = nTokenChanges + 1
    /\ step' = BootStep(tk)
    /\ errorText' = BootError(tk)
    /\ UNCHANGED << variant, mounted, invite, previewVars, formVars, cooldownVars, busy,
                    sessionUserId, rsvpVars, fnVars >>

\* Flow B with a fixed token
B_Answered ==
    \/ \E c \in calls : \E r \in Answers(c) : B_BootAfterSession(c, r)
    \/ \E c \in calls : \E r \in Answers(c) : PreviewDone(c, r)
    \/ \E c \in calls : \E r \in Answers(c) : B_LookupDone(c, r)
    \/ \E c \in calls : \E r \in Answers(c) : B_SendDone(c, r)
    \/ \E c \in calls : \E r \in Answers(c) : B_VerifyAfterOtp(c, r)
    \/ \E c \in calls : \E r \in Answers(c) : B_VerifyAfterUpsert(c, r)
    \/ \E c \in calls : \E r \in Answers(c) : B_RespondDone(c, r)

\* What the user types in Flow B: the first name and the email can be edited
\* back and forth, the last name and the phone are typed once; the code field
\* keeps what was typed.
B_LastNames == { <<"B">> }
B_PhoneInputs == { <<"+", "3", " ", "9">> }
B_OtpInputs == { <<" ">>, <<" ", "1", "2">> }

B_UserActs ==
    \/ B_OnSendCode
    \/ B_OnVerifyCode
    \/ \E next \in B_Choices : B_OnRespond(next)
    \/ \E v \in FirstNames : SetFirstName(v)
    \/ \E v \in B_LastNames : SetLastName(v)
    \/ \E v \in B_PhoneInputs : SetPhone(v)
    \/ \E v \in EmailInputs : SetEmail(v)
    \/ \E v \in B_OtpInputs : B_SetOtp(v)

B_Next ==
    \/ B_Answered
    \/ B_UserActs
    \/ \E uid \in UserIds \cup {null} : B_AuthStateChange(uid)

SpecB == InitPage("B") /\ [][B_Next]_vars

\* The first render of either page
InitNav == \E v \in {"A", "B"} : InitPage(v)

\* Either page with a fixed token, in page views in which the countdown of
\* the current page does not run down: one code is sent per page view
NextBoth ==
    \/ variant = "A" /\ (Answered \/ UserActs)
    \/ variant = "B" /\ B_Next

SpecBoth == InitNav /\ [][NextBoth]_vars

\* Both pages with navigation, in page views in which the visitor does not use
\* the forms: the effects, the auth events of Flow B, the download button of
\* the current page, unmount and a change of the route token.
Navigates ==
    \/ Unmount
    \/ \E tk \in Tokens : ChangeToken(tk)

NextNav ==
    \/ \E c \in calls : \E r \in Answers(c) : BootAfterClear(c, r)
    \/ \E c \in calls : \E r \in Answers(c) : BootAfterSignOut(c, r)
    \/ \E c \in calls : \E r \in Answers(c) : BootAfterSession(c, r)
    \/ \E c \in calls : \E r \in Answers(c) : PreviewDone(c, r)
    \/ \E c \in calls : \E r \in Answers(c) : B_BootAfterSession(c, r)
    \/ \E c \in calls : \E r \in Answers(c) : B_LookupDone(c, r)
    \/ \E uid \in UserIds \cup {null} : B_AuthStateChange(uid)
    \/ OnGetApp
    \/ Navigates

SpecNav == InitNav /\ [][NextNav]_vars

-----------------------------------------------------------------------------
(* What a step of the page did, read off the two states of the step *)

\* the calls that were answered, and the calls that were issued, in this step
AnsweredNow == calls \ calls'
IssuedNow == calls' \ calls

\* the run that awaited call c was already cleaned up when c answered
Stale(c) == RunOf(c).cancelled

-----------------------------------------------------------------------------
(* Claims *)

StepOrder == <<"loading", "needAuth", "verifyCode", "ready", "done">>
Rank(s) == CHOOSE i \in 1..Len(StepOrder) : StepOrder[i] = s

\* C1: with a fixed token, every change of step between two non-error states
\* moves to the immediate successor in the order loading, needAuth, verifyCode,
\* ready, done.
C1_StepSuccessor ==
    [][(step' # step /\ step # "error" /\ step' # "error")
         => Rank(step') = Rank(step) + 1]_vars

\* C1 witness: the page went through every step up to done.
C1_Witness == step = "done" /\ resultStatus \in Choices

\* C2 (as claimed): once step is error it never takes another value.
C2_ErrorTerminal == [][step = "error" => step' = "error"]_vars

\* C3 (as claimed): when the call of a cleaned-up bootstrap or post-login lookup
\* run answers, step, errorText, invite and sessionUserId stay as they are.
C3_StaleRunSilent ==
    [][\A c \in AnsweredNow :
          (RunOf(c).proc \in {"boot", "lookup"} /\ Stale(c))
            => UNCHANGED << step, errorText, invite, sessionUserId >>]_vars

\* C4: in both pages, when the get_invite_public call of a preview effect run
\* that was cleaned up (unmount or token change) answers, previewTitle,
\* previewDay and errorText stay as they are.
C4_StalePreviewIgnored ==
    [][\A c \in AnsweredNow :
          (RunOf(c).proc = "preview" /\ RunOf(c).cancelled) =>
             UNCHANGED << previewTitle, previewDay, errorText >>]_vars

\* C4 witness: the token changed while the bootstrap and the preview of the
\* first token were both suspended (the new bootstrap run got the third id),
\* and the stale preview call has answered since.
C4_Witness ==
    /\ variant = "A" /\ mounted /\ nTokenChanges = 1
    /\ \E x \in runs : x.proc = "boot" /\ ~x.cancelled /\ x.id = 2
    /\ \A x \in runs : x.proc = "preview" => ~x.cancelled

\* C5 (as claimed): at no moment are two remote calls outstanding.
C5_OneCallAtATime == Cardinality(calls) <= 1

\* C5 (amended): no effect run or handler invocation has two calls outstanding,
\* and the calls of the handlers onSendCode, onVerifyCode and onRespond never
\* overlap one another; calls of different effects, and of an effect and a
\* handler, can be outstanding together.
C5_SequentialPerRun ==
    /\ \A c1, c2 \in calls : c1.id = c2.id => c1 = c2
    /\ Cardinality({c \in calls : RunOf(c).proc \in HandlerProcs}) <= 1

\* C5 witness: the RSVP call and the post-login lookup are outstanding together.
C5_Witness ==
    \E c1, c2 \in calls : RunOf(c1).proc = "respond" /\ RunOf(c2).proc = "lookup"

\* C6 (as claimed): the function that sees a remote call fail issues no further
\* call of the same operation.
C6_NoRetry ==
    [][\A d \in IssuedNow : \A c \in AnsweredNow :
          d.op = c.op => \A r \in Answers(c) : ~(Failed(r) /\ AnswerStep(c, r))]_vars

\* C6 (amended): the function that sees a remote call fail issues the same
\* operation again in two cases only: verifyOtp of type magiclink, with the same
\* email and code, after verifyOtp of type email returned an error; and the
\* session fetch of the bootstrap after the session fetch inside
\* safeClearBrokenSession failed.
C6_NoRetryButFallback ==
    [][\A d \in IssuedNow : \A c \in AnsweredNow :
          d.op = c.op =>
             \A r \in Answers(c) :
                (Failed(r) /\ AnswerStep(c, r)) =>
                   \/ /\ c.op = "verifyOtp" /\ r.kind = "error"
                      /\ c.type = "email" /\ d.type = "magiclink"
                      /\ d.em = c.em /\ d.code = c.code /\ d.id = c.id
                   \/ /\ c.op = "getSession" /\ RunOf(c).proc = "boot"
                      /\ c.site = "clear" /\ d.site = "session" /\ d.id = c.id]_vars

\* C6 witness: the magiclink fallback is outstanding.
C6_Witness == \E c \in calls : c.op = "verifyOtp" /\ c.type = "magiclink"

\* C7: no signInWithOtp is issued while otpCooldownSec > 0, and onSendCode
\* called during the cooldown sets a message, issues nothing and leaves step,
\* otp and the counter unchanged.
C7_NoSendInCooldown ==
    [][/\ \A d \in IssuedNow : d.op = "signInWithOtp" => otpCooldownSec = 0
       /\ (OnSendCode /\ otpCooldownSec > 0) =>
             /\ errorText' # null
             /\ IssuedNow = {}
             /\ UNCHANGED << step, otp, otpCooldownSec >>]_vars

\* C7 witness: a send was refused in needAuth during a cooldown (a rate-limit
\* answer leaves this message only with a counter of at most 5).
C7_Witness == step = "needAuth" /\ otpCooldownSec > 5 /\ errorText = E_WAIT

\* what the claim calls a rate-limit failure, and the seconds a message names
C8_RateLimited(msg) ==
    \/ HasWord(msg, "429")
    \/ HasPhrase(msg, <<"too", "many", "requests">>)
    \/ HasPhrase(msg, <<"only", "request", "this", "after">>)
C8_Named(msg) ==
    {ParseInt(msg[i + 1]) : i \in {j \in 1..(Len(msg) - 2) :
        msg[j] = "after" /\ msg[j + 1] \in Numerals /\ msg[j + 2] = "seconds"}}

\* C8: after a successful send the counter is 30; after a rate-limit failure it
\* is the N > 0 the message names, and 30 when the message names none; after any
\* other failure it is unchanged.
C8_Cooldown ==
    [][\A c \in AnsweredNow : \A r \in Answers(c) :
          SendDone(c, r) =>
             /\ ~Failed(r) => otpCooldownSec' = 30
             /\ (Failed(r) /\ C8_RateLimited(r.msg)) =>
                   /\ \A n \in C8_Named(r.msg) : n > 0 => otpCooldownSec' = n
                   /\ C8_Named(r.msg) = {} => otpCooldownSec' = 30
             /\ (Failed(r) /\ ~C8_RateLimited(r.msg)) =>
                   UNCHANGED << otpCooldownSec, otpCooldownTimerRef >>]_vars

\* C8 witness: a rate-limit answer naming 5 seconds started a cooldown of 5.
C8_Witness ==
    step = "needAuth" /\ otpCooldownSec = 5 /\ otpCooldownTimerRef /\ errorText = E_WAIT

C9_Shown(c, r) ==
    LET x == RunOf(c) IN
    /\ ~x.cancelled
    /\ \/ x.proc = "preview" /\ r.kind = "error"
       \/ x.proc = "lookup"
       \/ x.proc = "send"
       \/ x.proc = "verify" /\ c.site = "otpEmail" /\ r.kind = "throw"
       \/ x.proc = "verify" /\ c.site \in {"otpMagic", "session"}
       \/ x.proc = "verify" /\ c.site = "upsert" /\ r.kind = "throw"
       \/ x.proc = "respond"

C11_RespondSignedIn ==
    [][\A d \in IssuedNow :
          d.op = "respond_party_invite_auth" =>
             sessionUserId # null /\ token # EmptyToken]_vars

\* C12 (as claimed): when a get_invite_public call of the post-login lookup
\* answers with a row, the page does not move to error and does not clear the
\* invite: it keeps step, and invite is what it was or the row.
C12_BackendDecides ==
    [][\A c \in AnsweredNow : \A r \in Answers(c) :
          ( /\ RunOf(c).proc = "lookup" /\ r.kind = "ok" /\ r.row # NoRow
            /\ (LookupDone(c, r) \/ B_LookupDone(c, r)) )
          => (step' = step /\ invite' \in {invite, r.row})]_vars

\* C12 (amended): in both pages, when the post-login lookup answers with a row
\* whose expires_at is before the browser's clock, the page itself sets step to
\* error, invite to null and the message "Questo invito e' scaduto."; with any
\* other row it keeps step, and invite is what it was or the row. The preview
\* lookup never changes step or invite.
C12_ExpiryChecked ==
    [][\A c \in AnsweredNow : \A r \in Answers(c) :
          (r.kind = "ok" /\ r.row # NoRow) =>
             /\ ( /\ RunOf(c).proc = "lookup"
                  /\ (LookupDone(c, r) \/ B_LookupDone(c, r)) )
                => IF r.row.expires_at = "past"
                   THEN step' = "error" /\ invite' = NoRow /\ errorText' = E_EXPIRED
                   ELSE step' = step /\ invite' \in {invite, r.row}
             /\ (RunOf(c).proc = "preview" /\ PreviewDone(c, r))
                => UNCHANGED << step, invite >>]_vars

\* C12 witness: the page declared the invite expired.
C12_Witness == step = "error" /\ errorText = E_EXPIRED /\ invite = NoRow

-----------------------------------------------------------------------------
(* The helper functions of the pages, evaluated on their own: the argument *)
(* is drawn from a bounded set of strings and one step applies the function *)

RECURSIVE Strings(_, _)
Strings(alphabet, n) ==
    IF n = 0 THEN {<<>>}
    ELSE LET shorter == Strings(alphabet, n - 1)
         IN shorter \cup {Append(s, ch) : s \in shorter, ch \in alphabet}

Rep(ch, n) == [i \in 1..n |-> ch]

PhoneArgs ==
    Strings({"+", "1", " ", "a"}, MaxStrLen)
      \cup {Rep("1", MaxPhoneDigits), Rep("1", MaxPhoneDigits + 1),
            <<"+">> \o Rep("1", MaxPhoneDigits),
            <<"+">> \o Rep("1", MaxPhoneDigits + 1),
            <<"+", "3", "9", " ">> \o Rep("2", MaxPhoneDigits) \o <<"+", "1">>}

EmailArgs ==
    Strings({"a", "@", ".", " "}, MaxEmailLen)
      \cup {<<" ", "A", "@", "b", ".", "c", " ">>,
            <<"a", ".", "b", "@", "c", ".", "d", ".", "e">>,
            <<"a", " ", "b", "@", "c", ".", "d">>}

\* date strings: none, blank, not a date, a date alone, date and time with
\* 'T' or a space, with seconds, padded, with the designators Z, z, +02:00,
\* -05:00, +0200 and +00, and with a month or a minute out of range
DayStrings ==
    LET stamp == Day1 \o <<"T">> \o Hour \o Secs
        spaced == Day1 \o <<" ">> \o Hour \o Secs
    IN { NullArg, <<>>, <<" ", " ">>, NotADate, <<"z", "z">>,
         Day1, Day1 \o <<"T">> \o Hour, Day1 \o <<" ">> \o Hour, stamp, spaced,
         <<" ">> \o stamp \o <<" ">>,
         stamp \o <<"Z">>, stamp \o <<"z">>,
         stamp \o <<"+", "0", "2", ":", "0", "0">>,
         stamp \o <<"-", "0", "5", ":", "0", "0">>,
         stamp \o <<"+", "0", "2", "0", "0">>,
         spaced \o <<"+", "0", "0", ":", "0", "0">>,
         spaced \o <<"+", "0", "0">>,
         Day1 \o <<"Z">>,
         <<"2", "0", "2", "5", "-", "1", "3", "-", "0", "1">> \o <<"T">> \o Hour,
         Day1 \o <<"T", "2", "1", ":", "6", "1">> }

\* fmtDay is given a date string and runs in an engine
DayArgs == [dateIso : DayStrings, engine : Engines]

FnArgs(f) ==
    CASE f = "normalizePhone"   -> PhoneArgs
      [] f = "B_normalizePhone" -> PhoneArgs
      [] f = "isValidEmail"     -> EmailArgs
      [] f = "fmtDay"           -> DayArgs
      [] f = "B_fmtDay"         -> DayArgs

FnNames == {"normalizePhone", "B_normalizePhone", "isValidEmail", "fmtDay", "B_fmtDay"}

\* No page is mounted
NoPage ==
    /\ mounted = FALSE
    /\ token = EmptyToken
    /\ nTokenChanges = 0
    /\ step = BootStep(token)
    /\ errorText = BootError(token)
    /\ invite = NoRow
    /\ previewTitle = "Evento"
    /\ previewDay = null
    /\ firstName = <<>> /\ lastName = <<>> /\ phone = <<>> /\ email = <<>>
    /\ otp = <<>>
    /\ otpCooldownSec = 0
    /\ otpCooldownTimerRef = FALSE
    /\ busy = FALSE
    /\ sessionUserId = null
    /\ resultStatus = null
    /\ pendingChoice = null
    /\ runs = {}
    /\ calls = {}

InitFn ==
    /\ fnName \in FnNames
    /\ fnArg \in FnArgs(fnName)
    /\ fnRes = << >>
    /\ variant = (IF fnName \in {"B_normalizePhone", "B_fmtDay"} THEN "B" ELSE "A")
    /\ NoPage

Returns(value) ==
    /\ fnRes = << >>
    /\ fnRes' = << value >>
    /\ UNCHANGED << variant, mounted, token, nTokenChanges, fnName, fnArg,
                    step, errorText, invite, previewVars, formVars, cooldownVars,
                    busy, sessionUserId, rsvpVars, runs, calls >>

ApplyNormalizePhone ==
    /\ fnName = "normalizePhone"
    /\ Returns(normalizePhone(fnArg))

B_ApplyNormalizePhone ==
    /\ fnName = "B_normalizePhone"
    /\ Returns(B_normalizePhone(fnArg))

ApplyIsValidEmail ==
    /\ fnName = "isValidEmail"
    /\ Returns(isValidEmail(fnArg))

ApplyFmtDay ==
    /\ fnName = "fmtDay"
    /\ Returns(fmtDayIn(fnArg.engine, fnArg.dateIso))

\* Flow B's fmtDay has the text of the current page's
B_ApplyFmtDay ==
    /\ fnName = "B_fmtDay"
    /\ Returns(fmtDayIn(fnArg.engine, fnArg.dateIso))

NextFn ==
    \/ ApplyNormalizePhone
    \/ B_ApplyNormalizePhone
    \/ ApplyIsValidEmail
    \/ ApplyFmtDay
    \/ B_ApplyFmtDay

SpecFn == InitFn /\ [][NextFn]_vars

Returned(f) == fnName = f /\ fnRes # << >>

-----------------------------------------------------------------------------
(* C13 *)

\* digits, optionally preceded by one leading '+', and at most 15 digits
PhoneFormat(s) ==
    /\ \A i \in 1..Len(s) : s[i] \in Digits \/ (s[i] = "+" /\ i = 1)
    /\ Len(Filter(s, Digits)) <= MaxPhoneDigits

\* C13: whatever normalizePhone returns, in the current page and in Flow B,
\* consists of digits optionally preceded by a single leading '+', holds at
\* most 15 digits, and holds no '+' after its first character.
C13_PhoneFormat ==
    (Returned("normalizePhone") \/ Returned("B_normalizePhone"))
        => PhoneFormat(fnRes[1])

-----------------------------------------------------------------------------
(* C14 *)

IsCode(s) == Len(s) = OtpLen /\ \A i \in 1..Len(s) : s[i] \in Digits

\* C14: every verifyOtp call the current page issues carries a code of
\* exactly 8 decimal digits; when the handler resumes after
\* safeClearBrokenSession holding a code whose sanitized form has fewer than 8
\* digits, that step issues no verifyOtp call and step stays verifyCode.
C14_EightDigits ==
    [][/\ \A d \in IssuedNow : d.op = "verifyOtp" => IsCode(d.code)
       /\ \A c \in AnsweredNow :
             ( /\ RunOf(c).proc = "verify"
               /\ RunOf(c).pc \in {"clear", "signOut"}
               /\ Len(sanitizeOtp(RunOf(c).code)) < OtpLen )
             => /\ step = "verifyCode" /\ step' = "verifyCode"
                /\ \A d \in IssuedNow : d.op # "verifyOtp"]_vars

\* a verifyOtp call is outstanding, carrying the 8 digits typed in the field
C14_Witness ==
    /\ step = "verifyCode"
    /\ \E c \in calls : c.op = "verifyOtp" /\ IsCode(c.code)

-----------------------------------------------------------------------------
(* C15 *)

\* the helper functions next to the two invite pages: what isValidEmail
\* returns, and what the send handlers do with it
SpecEmail == (InitFn \/ InitNav) /\ [][NextFn \/ NextBoth]_vars

\* local part, one '@', a part, '.', a part: none empty, none holding
\* whitespace or '@'
EmailShape(s) ==
    \E i \in 1..Len(s) : \E j \in 1..Len(s) :
        /\ 1 < i /\ i + 1 < j /\ j < Len(s)
        /\ s[i] = "@" /\ s[j] = "."
        /\ \A k \in (1..Len(s)) \ {i} : s[k] \notin (Whitespace \cup {"@"})

\* C15: isValidEmail returns true exactly for the strings that, trimmed and
\* lower-cased, have the shape part '@' part '.' part; and every
\* signInWithOtp call of either invite page carries an email it accepts.
C15_EmailAccepted ==
    /\ [](Returned("isValidEmail")
            => (fnRes[1] <=> EmailShape(ToLower(Trim(fnArg)))))
    /\ [][\A d \in IssuedNow :
             d.op = "signInWithOtp" => isValidEmail(d.em) /\ EmailShape(d.em)]_vars

\* isValidEmail accepted a string that had to be trimmed and lower-cased
C15_Witness ==
    /\ Returned("isValidEmail")
    /\ fnRes[1] = TRUE
    /\ fnArg # ToLower(Trim(fnArg))

-----------------------------------------------------------------------------
(* C16 *)

Blank(s) == s = NullArg \/ Trim(s) = <<>>

\* the date a string denotes for the engine: the string as it is or, if the
\* engine wants a 'T' between date and time, with its first space written 'T'
Denotes(engine, s) ==
    IF DateParse(engine, s).ok THEN DateParse(engine, s)
    ELSE DateParse(engine, ReplaceFirst(s, " ", "T"))

\* C16: fmtDay returns null for a null, empty, whitespace-only or
\* unparseable date string; for a string the engine parses it returns the day
\* of that date and time, taken at +01:00 when the string holds no timezone
\* designator and at the string's own designator when it holds one.
C16_FmtDay ==
    (Returned("fmtDay") \/ Returned("B_fmtDay")) =>
        LET s == fnArg.dateIso
            res == fnRes[1]
            own == Denotes(fnArg.engine, Trim(s))
        IN IF Blank(s) \/ ~own.ok THEN ~res.ok
           ELSE /\ res.ok
                /\ res.date = own.date /\ res.time = own.time
                /\ res.tz = (IF own.tz = <<>> THEN PlusOne ELSE own.tz)

-----------------------------------------------------------------------------
(* C17 *)

\* the invocation of onVerifyCode that issued the call d, after the step
Issuer(d) == CHOOSE x \in runs' : x.id = d.id

\* C17 as stated: a profile upsert is issued only by an invocation of
\* onVerifyCode whose verifyOtp succeeded and returned a user, and the id it
\* writes is that user's.
C17_IdFromVerifyOtp ==
    [][\A d \in IssuedNow :
          d.op = "upsert" =>
             /\ Issuer(d).proc = "verify" /\ Issuer(d).verified
             /\ Issuer(d).vuid # null
             /\ d.uid = Issuer(d).vuid]_vars

\* C17 as the pages do it: a profile upsert is issued only by an invocation
\* of onVerifyCode whose verifyOtp succeeded, and the id it writes is the
\* user the invocation holds, never null.  In Flow B that user is the one
\* verifyOtp returned.  In the current page it is fixed when the getSession
\* after the verification answers: the user of that session or, if the
\* session has none, the user verifyOtp returned.
C17_IdFromSession ==
    [][/\ \A d \in IssuedNow :
             d.op = "upsert" =>
                /\ Issuer(d).proc = "verify" /\ Issuer(d).verified
                /\ d.uid # null /\ d.uid = Issuer(d).uid
                /\ variant = "B" => d.uid = Issuer(d).vuid
       /\ \A c \in AnsweredNow :
             (c.op = "getSession" /\ c.site = "session") =>
                \A r \in Answers(c) :
                   (r.kind = "ok" /\ VerifyAfterSession(c, r)) =>
                      \A y \in runs' :
                         y.id = c.id =>
                            /\ y.verified /\ y.vuid = RunOf(c).vuid
                            /\ y.uid = (IF r.uid # null THEN r.uid ELSE y.vuid)]_vars

\* the current page writes a profile for the user of the session although
\* verifyOtp returned none
C17_Witness ==
    \E c \in calls :
        /\ c.op = "upsert" /\ c.uid # null
        /\ RunOf(c).verified /\ RunOf(c).vuid = null

-----------------------------------------------------------------------------
(* The two route handlers of the deep-link association files.  A handler   *)
(* takes no parameter: the request that reached it is kept in fnArg, the   *)
(* response it built in fnRes.                                              *)

Requests ==
    [query  : Strings({"a", "="}, MaxQueryLen),
     agent  : {"ios", "android", "browser"},
     accept : {"application/json", "*/*"}]

\* a response that opens every path to an iOS client
AppleResponse_ByAgent(req) ==
    [contentType |-> "application/json",
     body |-> [applinks |->
                 [apps |-> << >>,
                  details |-> << [appID |-> "SKJDY5H65H.com.riccardo.partydispo",
                                  paths |-> IF req.agent = "ios"
                                            THEN << "*" >> ELSE << "/i/*" >>] >>]]]

\* NextResponse.json(...) of the apple-app-site-association route
AppleResponse(req) ==
    [contentType |-> "application/json",
     body |-> [applinks |->
                 [apps |-> << >>,
                  details |-> << [appID |-> "SKJDY5H65H.com.riccardo.partydispo",
                                  paths |-> << "/i/*" >>] >>]]]

\* NextResponse.json(...) of the assetlinks.json route
AssetLinksResponse(req) ==
    [contentType |-> "application/json",
     body |-> << [relation |-> << "delegate_permission/common.handle_all_urls" >>,
                  target |->
                    [namespace |-> "android_app",
                     package_name |-> "com.riccardo.partydispo",
                     sha256_cert_fingerprints |->
                       << "F8:1D:02:37:0C:22:43:C5:F3:93:26:D3:DC:4D:79:E8:F9:FD:A8:77:B8:E6:0E:63:7E:1A:98:74:9C:C7:D1:F4" >>]] >>]

Served(route, req, response) ==
    /\ fnName' = route
    /\ fnArg' = req
    /\ fnRes' = << response >>
    /\ UNCHANGED << variant, mounted, token, nTokenChanges,
                    step, errorText, invite, previewVars, formVars, cooldownVars,
                    busy, sessionUserId, rsvpVars, runs, calls >>

AppleGET(req) ==
    /\ ~mounted
    /\ Served("apple-app-site-association", req, AppleResponse(req))

AssetLinksGET(req) ==
    /\ ~mounted
    /\ Served("assetlinks.json", req, AssetLinksResponse(req))

InitLinks ==
    /\ fnName = null
    /\ fnArg = << >>
    /\ fnRes = << >>
    /\ variant = "A"
    /\ NoPage

NextLinks ==
    \/ \E req \in Requests : AppleGET(req)
    \/ \E req \in Requests : AssetLinksGET(req)

SpecLinks == InitLinks /\ [][NextLinks]_vars

-----------------------------------------------------------------------------
(* C18 *)

\* C18: whatever the request and whatever was served before, the iOS
\* endpoint answers with one app id, SKJDY5H65H.com.riccardo.partydispo, and
\* the paths ["/i/*"], the Android endpoint with package
\* com.riccardo.partydispo and a single certificate fingerprint; a route
\* that answers twice in a row answers the same.
C18_FixedPayload ==
    /\ [](Returned("apple-app-site-association") =>
            LET d == fnRes[1].body.applinks.details
            IN /\ Len(d) = 1
               /\ d[1].appID = "SKJDY5H65H.com.riccardo.partydispo"
               /\ d[1].paths = << "/i/*" >>)
    /\ [](Returned("assetlinks.json") =>
            LET b == fnRes[1].body
            IN /\ Len(b) = 1
               /\ b[1].target.package_name = "com.riccardo.partydispo"
               /\ Len(b[1].target.sha256_cert_fingerprints) = 1)
    /\ [][(fnRes # << >> /\ fnName' = fnName) => fnRes' = fnRes]_vars

\* the iOS endpoint answered a request that came with a query string
C18_Witness ==
    /\ Returned("apple-app-site-association")
    /\ fnArg.query # << >>
    /\ fnArg.agent = "ios"

-----------------------------------------------------------------------------
(* The current page in a page view with one change of the route token, the *)
(* visitor typing one valid value into each field: bootstrap, post-login   *)
(* lookup, the three handlers and the cooldown timer.  The preview effect   *)
(* and the download button, which never set step, are left out.            *)

RouteAnswered ==
    \/ \E c \in calls : \E r \in Answers(c) : BootAfterClear(c, r)
    \/ \E c \in calls : \E r \in Answers(c) : BootAfterSignOut(c, r)
    \/ \E c \in calls : \E r \in Answers(c) : BootAfterSession(c, r)
    \/ \E c \in calls : \E r \in Answers(c) : LookupDone(c, r)
    \/ \E c \in calls : \E r \in Answers(c) : SendDone(c, r)
    \/ \E c \in calls : \E r \in Answers(c) : VerifyAfterClear(c, r)
    \/ \E c \in calls : \E r \in Answers(c) : VerifyAfterSignOut(c, r)
    \/ \E c \in calls : \E r \in Answers(c) : VerifyAfterOtpEmail(c, r)
    \/ \E c \in calls : \E r \in Answers(c) : VerifyAfterOtpMagic(c, r)
    \/ \E c \in calls : \E r \in Answers(c) : VerifyAfterSession(c, r)
    \/ \E c \in calls : \E r \in Answers(c) : VerifyAfterGetUser(c, r)
    \/ \E c \in calls : \E r \in Answers(c) : VerifyAfterUpsert(c, r)
    \/ \E c \in calls : \E r \in Answers(c) : RespondDone(c, r)

RouteActs ==
    \/ OnSendCode
    \/ OnVerifyCode
    \/ OnRespond("yes")
    \/ \E v \in FirstNames \ {<<>>} : SetFirstName(v)
    \/ \E v \in LastNames \ {<<>>} : SetLastName(v)
    \/ \E v \in PhoneInputs \ {<<>>} : SetPhone(v)
    \/ \E v \in {e \in EmailInputs : isValidEmail(e)} : SetEmail(v)
    \/ \E v \in {o \in OtpInputs : Len(o) = OtpLen} : SetOtp(v)

\* a post-login lookup, cleaned up or not, has its call outstanding
LookupPending ==
    \E c \in calls : c.op = "get_invite_public" /\ RunOf(c).proc = "lookup"

\* the visitor follows the link of another invite while the lookup of the
\* first one is outstanding
RouteChange == LookupPending /\ ChangeToken("t2")

NextRoute ==
    \/ RouteAnswered
    \/ RouteActs
    \/ Tick
    \/ RouteChange

SpecRoute == Init /\ [][NextRoute]_vars

-----------------------------------------------------------------------------
(* C19 *)

\* the bootstrap of a render without token waits for safeClearBrokenSession
BootPendingNoToken ==
    \E x \in runs : x.proc = "boot" /\ x.tok = EmptyToken /\ ~x.cancelled

\* C19: whatever step the current page shows, loading, needAuth, verifyCode,
\* ready or done, error can be the next value of step as soon as a
\* post-login lookup is outstanding or the bootstrap runs without a token;
\* and the page does show each of the five steps in such a state (the
\* witness, and the states on the way to it).
C19_ErrorNext ==
    (step # "error" /\ (LookupPending \/ BootPendingNoToken))
        => ENABLED (NextRoute /\ step' = "error")

\* The page waits for a code after a route change, with a lookup of the first
\* invite still outstanding.  Before this state the visitor was signed in
\* (ready) and answered (done), the route changed (loading), the bootstrap
\* ended (needAuth) and a code was sent again (verifyCode).
C19_Witness ==
    /\ step = "verifyCode"
    /\ nTokenChanges = 1
    /\ resultStatus # null
    /\ \E c \in calls :
          c.op = "get_invite_public" /\ c.tok = "t1" /\ RunOf(c).proc = "lookup"

-----------------------------------------------------------------------------
(* C20 *)

\* the profile upsert of an onVerifyCode invocation of the current page, shown
\* to a visitor (the component is mounted)
UpsertOfVerify(c) ==
    /\ variant = "A" /\ mounted
    /\ c.op = "upsert"
    /\ RunOf(c).proc = "verify"

\* C20: in the current page, once verifyOtp has succeeded and a user id was
\* obtained, the step that takes up the answer of the profile upsert sets
\* step to ready, whether the upsert succeeded or failed: a failed upsert
\* never keeps the visitor on verifyCode.
C20_UpsertNeverBlocks ==
    [][\A c \in AnsweredNow : UpsertOfVerify(c) => step' = "ready"]_vars

\* the part of C20 the code keeps: an upsert that resolves, with or without an
\* error value, is followed by ready
C20_ResolvedUpsert ==
    [][\A c \in AnsweredNow : \A r \in Answers(c) :
          (UpsertOfVerify(c) /\ r.kind # "throw" /\ AnswerStep(c, r))
          => step' = "ready"]_vars

-----------------------------------------------------------------------------
(* C21 *)

\* the three warnings onVerifyCode sets after a failed profile upsert
UpsertWarnings == { E_UPSERT_GENDER, E_UPSERT_SEX, E_UPSERT_RLS }

\* C21 (as claimed): in the current page, when the profile upsert fails after
\* a successful OTP verification, the warning onVerifyCode sets is the value
\* of errorText once step is ready, and stays so while the post-login lookup
\* completes: the step that takes up the error value of the upsert ends with
\* step ready and errorText the warning.
C21_WarningShown ==
    [][\A c \in AnsweredNow : \A r \in Answers(c) :
          (UpsertOfVerify(c) /\ r.kind = "error" /\ AnswerStep(c, r))
          => (step' = "ready" /\ errorText' = UpsertWarning(r))]_vars

\* what the code does instead: no render the visitor is left with shows one
\* of the three warnings
C21_WarningNeverShown == errorText \notin UpsertWarnings

-----------------------------------------------------------------------------
(* C22 *)

\* the messages that say the code is invalid or expired
CodeMessages == { E_CODE_EXPIRED, E_CODE_INVALID, E_CODE_CATCH, E_B_CODE }

\* C22 (as claimed): in both pages a message saying that the code is invalid
\* or expired is set only when the OTP verification itself failed: when a call
\* that onVerifyCode awaits after a successful verifyOtp (session fetch,
\* getUser, profile upsert) answers, errorText does not become such a message.
C22_CodeMessageOnlyForOtp ==
    [][\A c \in AnsweredNow :
          (RunOf(c).proc = "verify" /\ RunOf(c).verified)
          => (errorText' \notin CodeMessages \/ errorText' = errorText)]_vars

\* the failures after a successful verification that the current page does
\* not report as a bad code: error values of the session fetch and of the
\* profile upsert, and every answer of getUser
C22_ErrorValuesOfA ==
    [][\A c \in AnsweredNow : \A r \in Answers(c) :
          ( /\ variant = "A" /\ RunOf(c).proc = "verify" /\ RunOf(c).verified
            /\ (r.kind # "throw" \/ c.op = "getUser")
            /\ AnswerStep(c, r) )
          => (errorText' \notin CodeMessages \/ errorText' = errorText)]_vars

-----------------------------------------------------------------------------
(* C23 *)

\* C23 (as claimed): in the current page onVerifyCode works on the data that
\* onSendCode validated.  When a signInWithOtp call has answered and the page
\* shows verifyCode, the email of the form, which onVerifyCode will pass to
\* verifyOtp, is the email that call was sent to, and the trimmed first name,
\* the trimmed last name and the normalized phone of the form are non-empty,
\* also when the fields were edited while the call was outstanding.  (The
\* form fields cannot be edited while step is verifyCode.)
C23_VerifiesWhatWasSent ==
    [][\A c \in AnsweredNow :
          (variant = "A" /\ c.op = "signInWithOtp" /\ step' = "verifyCode")
          => /\ ToLower(Trim(email')) = c.em
             /\ Trim(firstName') # <<>>
             /\ Trim(lastName') # <<>>
             /\ normalizePhone(phone') # <<>>]_vars

\* the part of C23 the code keeps: the email of a verifyOtp call is the
\* trimmed, lower-cased email of the form
C23_VerifiesTheForm ==
    [][\A c \in IssuedNow :
          (variant = "A" /\ c.op = "verifyOtp") => c.em = ToLower(Trim(email))]_vars

-----------------------------------------------------------------------------
(* C24 *)

\* the calls of one click on "Verifica e continua" carry the id of its run
SameClick(c, d) == c.id = d.id /\ RunOf(c).proc = "verify"

\* C24: in the current page a verifyOtp of type email is issued first, right
\* after safeClearBrokenSession; a verifyOtp of type magiclink is issued only
\* when the verifyOtp of type email of the same click returned an error value,
\* and carries the same email and code; nothing follows a magiclink attempt or
\* a later call of the click with another verifyOtp, so a click makes at most
\* two; and when either attempt returns without error the handler goes on to
\* fetch the session, the code being verified.
C24_EmailThenMagiclink ==
    [][variant = "A" =>
        /\ \A d \in IssuedNow :
              d.op = "verifyOtp" =>
                 \E c \in AnsweredNow :
                    /\ SameClick(c, d)
                    /\ \/ /\ d.type = "email"
                          /\ c.site \in {"clear", "signOut"}
                       \/ /\ d.type = "magiclink"
                          /\ c.op = "verifyOtp" /\ c.type = "email"
                          /\ d.em = c.em /\ d.code = c.code
                          /\ \A r \in Answers(c) : AnswerStep(c, r) => r.kind = "error"
        /\ \A c \in AnsweredNow :
              (RunOf(c).proc = "verify" /\ c.op = "verifyOtp") =>
                 \A r \in Answers(c) :
                    (r.kind = "ok" /\ AnswerStep(c, r)) =>
                       /\ \E d \in IssuedNow : SameClick(c, d) /\ d.op = "getSession"
                       /\ \A d \in IssuedNow : d.op # "verifyOtp"]_vars

\* C24 witness: a verifyOtp of the click succeeded and the handler fetches the
\* session.
C24_Witness ==
    /\ variant = "A"
    /\ \E x \in runs : x.proc = "verify" /\ x.pc = "session" /\ x.verified

-----------------------------------------------------------------------------
(* The current page up to the send of a code, with more to type *)

\* What the visitor types into the form in these page views: blanks, a lone
\* '+', punctuation without digits, and the values of the other page views.
SendFirstNames == FirstNames \cup { <<" ">> }
SendLastNames  == LastNames
SendPhones     == PhoneInputs \cup { <<"+">>, <<"(", ")">>, <<" ", "+", "-">> }
SendEmails     == EmailInputs

SendAnswered ==
    \/ \E c \in calls : \E r \in Answers(c) : BootAfterClear(c, r)
    \/ \E c \in calls : \E r \in Answers(c) : BootAfterSignOut(c, r)
    \/ \E c \in calls : \E r \in Answers(c) : BootAfterSession(c, r)
    \/ \E c \in calls : \E r \in Answers(c) : SendDone(c, r)

SendActs ==
    \/ OnSendCode
    \/ \E v \in SendFirstNames : SetFirstName(v)
    \/ \E v \in SendLastNames : SetLastName(v)
    \/ \E v \in SendPhones : SetPhone(v)
    \/ \E v \in SendEmails : SetEmail(v)
    \/ \E v \in OtpInputs : SetOtp(v)

NextSend == SendAnswered \/ SendActs

SpecSend == Init /\ [][NextSend]_vars

-----------------------------------------------------------------------------
(* C25 *)

HasDigit(p) == \E i \in 1..Len(p) : p[i] \in Digits

\* what the claim requires of the form and the route before a code is sent
C25_Valid ==
    /\ Trim(firstName) # <<>>
    /\ Trim(lastName) # <<>>
    /\ HasDigit(phone)
    /\ isValidEmail(ToLower(Trim(email)))
    /\ token # EmptyToken

\* C25 (as claimed): in the current page signInWithOtp is issued only when
\* the trimmed first name and last name are non-empty, the phone contains at
\* least one digit, the email is valid and the token is non-empty; when one of
\* these fails, onSendCode sends no request and leaves step unchanged.
C25_SendOnlyValidated ==
    [][variant = "A" =>
        /\ \A d \in IssuedNow : d.op = "signInWithOtp" => C25_Valid
        /\ (OnSendCode /\ ~C25_Valid) => (IssuedNow = {} /\ step' = step)]_vars

\* what the code tests instead of a digit: the normalized phone is not empty
C25_Tested ==
    /\ Trim(firstName) # <<>>
    /\ Trim(lastName) # <<>>
    /\ normalizePhone(phone) # <<>>
    /\ isValidEmail(ToLower(Trim(email)))
    /\ token # EmptyToken

\* the validation the code performs: the claim with "the normalized phone is
\* not empty" in place of "the phone contains a digit"
C25_SendOnlyTested ==
    [][variant = "A" =>
        /\ \A d \in IssuedNow : d.op = "signInWithOtp" => C25_Tested
        /\ (OnSendCode /\ ~C25_Tested) => (IssuedNow = {} /\ step' = step)]_vars

-----------------------------------------------------------------------------
(* C26 *)

\* C26: in the current page, while it is mounted, the continuation of
\* onSendCode sets step to verifyCode and empties the code field exactly when
\* its signInWithOtp call returned without error; a click that is refused (a
\* validation failure or the cooldown) and a call that failed leave step and
\* the code field as they are; and step becomes verifyCode in no other way.
C26_SendFrame ==
    [][(variant = "A" /\ mounted) =>
        /\ \A c \in AnsweredNow : \A r \in Answers(c) :
              SendDone(c, r) =>
                 IF r.kind = "ok"
                 THEN step' = "verifyCode" /\ otp' = <<>>
                 ELSE UNCHANGED << step, otp >>
        /\ OnSendCode => UNCHANGED << step, otp >>
        /\ (step # "verifyCode" /\ step' = "verifyCode") =>
              \E c \in AnsweredNow : c.op = "signInWithOtp"]_vars

\* C26 witness: a resend failed while the page showed verifyCode with digits
\* typed; the page still shows verifyCode and the digits.
C26_Witness ==
    /\ variant = "A" /\ step = "verifyCode" /\ errorText = E_SEND /\ otp # <<>>

-----------------------------------------------------------------------------
(* C27 *)

\* the continuation of onRespond, of either page, after answer r of call c
RespondEnds(c, r) == RespondDone(c, r) \/ B_RespondDone(c, r)

AllChoices == Choices \cup B_Choices

\* C27 (as claimed): in both pages, while mounted, onRespond sets step to
\* done only when respond_party_invite_auth returned no error and a result
\* whose ok is truthy, and resultStatus is then the choice that was sent; on
\* an error or a result that is not ok step stays ready, resultStatus is
\* unchanged and pendingChoice is null again, so that the RSVP buttons are
\* shown again.
C27_RespondOutcome ==
    [][mounted =>
        \A c \in AnsweredNow : \A r \in Answers(c) :
           RespondEnds(c, r) =>
              IF r.kind = "ok" /\ r.ok
              THEN step' = "done" /\ resultStatus' = c.status
              ELSE /\ step' = "ready"
                   /\ resultStatus' = resultStatus
                   /\ pendingChoice' = null]_vars

\* C27 (amended): in both pages, while mounted, onRespond sets step to done
\* only when respond_party_invite_auth returned no error and a result whose
\* ok is truthy, and resultStatus is then the choice that was sent; on an
\* error or a result that is not ok it leaves step and resultStatus as they
\* are and sets pendingChoice to null.  step is then ready, and the RSVP
\* buttons are shown again, unless the post-login lookup or, in Flow B, an
\* auth event moved the page to another step while the call was outstanding.
\* No other step of the page sets done.
C27_RespondFrame ==
    [][mounted =>
        /\ \A c \in AnsweredNow : \A r \in Answers(c) :
              RespondEnds(c, r) =>
                 IF r.kind = "ok" /\ r.ok
                 THEN step' = "done" /\ resultStatus' = c.status
                 ELSE /\ UNCHANGED << step, resultStatus >>
                      /\ pendingChoice' = null
        /\ (step # "done" /\ step' = "done") =>
              \E c \in AnsweredNow : c.op = "respond_party_invite_auth"]_vars

\* C27 witness: a response was refused and the RSVP buttons are shown again.
C27_Witness ==
    /\ step = "ready" /\ pendingChoice = null /\ ~busy
    /\ errorText \in {E_RESPOND, E_INVITE_BAD}

-----------------------------------------------------------------------------
(* C28 *)

\* C28: in the current page with a fixed token, once a
\* respond_party_invite_auth call has succeeded (resultStatus holds the choice
\* it recorded), resultStatus keeps that choice, the page never shows ready
\* again, and no further respond_party_invite_auth call is issued.
C28_ResponseFinal ==
    [][(variant = "A" /\ resultStatus # null) =>
        /\ resultStatus' = resultStatus
        /\ step' # "ready"
        /\ \A d \in IssuedNow : d.op # "respond_party_invite_auth"]_vars

\* C28 witness: the response "no" was recorded, every call has answered and
\* the page shows the confirmation.
C28_Witness ==
    /\ variant = "A" /\ step = "done" /\ resultStatus = "no"
    /\ ~busy /\ calls = {}

-----------------------------------------------------------------------------
(* C29 *)

\* C29 (as claimed): in Flow B the onAuthStateChange listener moves step to
\* ready only from needAuth or verifyCode: an auth event that carries a
\* session never moves the page out of done, out of error, or out of loading.
C29_ListenerFromAuthSteps ==
    [][\A uid \in UserIds :
          (B_AuthStateChange(uid) /\ step' # step)
          => step \in {"needAuth", "verifyCode"}]_vars

\* what the listener does: whatever the step, an event with a session makes
\* it ready
C29_ListenerAlwaysReady ==
    [][\A uid \in UserIds : B_AuthStateChange(uid) => step' = "ready"]_vars

-----------------------------------------------------------------------------
(* C30 *)

-----------------------------------------------------------------------------
(* C31 *)

\* the remote calls that need the invite token or the form
TokenCalls == { "get_invite_public", "signInWithOtp", "verifyOtp",
                "respond_party_invite_auth" }

\* C31: in the current page, when the token resolves to the empty string, the
\* bootstrap ends with step error and the message "Link non valido: token
\* mancante o URL non corretta.", and no get_invite_public, signInWithOtp,
\* verifyOtp or respond_party_invite_auth call is outstanding at any time.
C31_NoTokenNoCalls ==
    /\ []((variant = "A" /\ token = EmptyToken) =>
            \A c \in calls : c.op \notin TokenCalls)
    /\ [][\A c \in AnsweredNow :
            (/\ variant = "A" /\ token = EmptyToken
             /\ RunOf(c).proc = "boot"
             /\ \A x \in runs' : x.id # c.id)
            => (step' = "error" /\ errorText' = E_NO_TOKEN)]_vars

\* the bootstrap of a page without token has ended
C31_Witness ==
    /\ variant = "A" /\ token = EmptyToken
    /\ step = "error" /\ errorText = E_NO_TOKEN
    /\ runs = {} /\ calls = {}

-----------------------------------------------------------------------------
(* C32 *)

\* call c is the get_invite_public of a post-login lookup of the current page
LookupOfPage(c) == variant = "A" /\ RunOf(c).proc = "lookup"

\* C32 (as claimed): in the current page, when the get_invite_public of the
\* post-login lookup fails, step is ready afterwards, invite is null, the
\* message of the lookup is set and the RSVP buttons are as usable as before;
\* and a lookup moves step to error only when it returned no row.
C32_FailureNeverBlocks ==
    [][\A c \in AnsweredNow : \A r \in Answers(c) :
          (LookupOfPage(c) /\ AnswerStep(c, r)) =>
             /\ Failed(r) => /\ step' = "ready" /\ invite' = NoRow
                             /\ errorText' = E_LOOKUP
                             /\ RespondEnabled' = RespondEnabled
             /\ (step' = "error" /\ step # "error") =>
                   (r.kind = "ok" /\ r.row = NoRow)]_vars

\* C32 (amended): a failed lookup whose effect run is still current finds step
\* ready and leaves it ready, sets invite to null and the message of the
\* lookup, and leaves pendingChoice and busy alone, so the RSVP buttons are as
\* usable as before; a failed lookup whose run was cleaned up changes nothing;
\* a lookup changes step only to error, and only when it returned no row or a
\* row that has expired.
C32_FailureLeavesRsvp ==
    [][\A c \in AnsweredNow : \A r \in Answers(c) :
          (LookupOfPage(c) /\ AnswerStep(c, r)) =>
             /\ (Failed(r) /\ ~RunOf(c).cancelled) =>
                   /\ step = "ready" /\ step' = "ready"
                   /\ invite' = NoRow /\ errorText' = E_LOOKUP
                   /\ UNCHANGED << pendingChoice, busy, resultStatus >>
             /\ (Failed(r) /\ RunOf(c).cancelled) =>
                   UNCHANGED << step, invite, errorText, pendingChoice, busy,
                                resultStatus >>
             /\ step' # step =>
                   /\ step' = "error" /\ r.kind = "ok"
                   /\ (r.row = NoRow \/ IsExpired(r.row))]_vars

\* the lookup failed and the RSVP buttons are shown and enabled
C32_Witness ==
    /\ variant = "A" /\ step = "ready" /\ errorText = E_LOOKUP /\ invite = NoRow
    /\ RespondEnabled
    /\ \A x \in runs : x.proc # "lookup"

-----------------------------------------------------------------------------
(* C33 *)

\* the RSVP section of the ready screen: `pendingChoice ? <text> : <buttons>`
RsvpButtonsShown == step = "ready" /\ pendingChoice = null
SendingTextShown == step = "ready" /\ pendingChoice # null

RespondInFlight == \E c \in calls : c.op = "respond_party_invite_auth"

\* C33: in the current page, whenever step is ready and no
\* respond_party_invite_auth call is outstanding, pendingChoice is null: the
\* two RSVP buttons are rendered and the "Sto inviando la tua risposta" text
\* is not.
C33_ButtonsWhenIdle ==
    (variant = "A" /\ step = "ready" /\ ~RespondInFlight) =>
        (pendingChoice = null /\ RsvpButtonsShown /\ ~SendingTextShown)

\* a response was refused and the buttons are back
C33_Witness ==
    /\ variant = "A" /\ step = "ready" /\ ~RespondInFlight
    /\ errorText \in {E_RESPOND, E_INVITE_BAD}
    /\ RsvpButtonsShown

-----------------------------------------------------------------------------
(* C34 *)

\* the invocations of onSendCode, onVerifyCode and onRespond that have issued
\* a remote call and have not reached the end of their finally block
HandlersInFlight == { x \in runs : x.proc \in {"send", "verify", "respond"} }

\* C34: in the current page, busy is true exactly while an invocation of
\* onSendCode, onVerifyCode or onRespond is between its first remote call and
\* its finally block, and at most one such invocation is in flight.
C34_BusyIffHandler ==
    variant = "A" =>
        /\ busy <=> (HandlersInFlight # {})
        /\ Cardinality(HandlersInFlight) <= 1

\* onRespond is in flight, after onSendCode and onVerifyCode have finished
C34_Witness ==
    /\ variant = "A" /\ busy
    /\ \E x \in HandlersInFlight : x.proc = "respond"

-----------------------------------------------------------------------------
(* C35 *)

\* The current page with a fixed token, where every outstanding remote call
\* is answered sooner or later; the cooldown timer plays no part in whether a
\* handler finishes and is left out.
NextLive == Answered \/ UserActs

\* onVerifyCode is suspended inside safeClearBrokenSession
VerifyAwaitsClear ==
    \E c \in calls : RunOf(c).proc = "verify" /\ RunOf(c).pc \in {"clear", "signOut"}

\* a call of that safeClearBrokenSession answers
VerifyCleared ==
    \E c \in calls : \E r \in Answers(c) :
        VerifyAfterClear(c, r) \/ VerifyAfterSignOut(c, r)

\* any other call answers
AnsweredElsewhere ==
    \E c \in calls : \E r \in Answers(c) :
        \/ BootAfterClear(c, r) \/ BootAfterSignOut(c, r) \/ BootAfterSession(c, r)
        \/ PreviewDone(c, r) \/ LookupDone(c, r) \/ SendDone(c, r)
        \/ VerifyAfterOtpEmail(c, r) \/ VerifyAfterOtpMagic(c, r)
        \/ VerifyAfterSession(c, r) \/ VerifyAfterGetUser(c, r)
        \/ VerifyAfterUpsert(c, r) \/ RespondDone(c, r)

\* Weak fairness of the answers.  For the calls of safeClearBrokenSession in
\* onVerifyCode it is written out, WF_vars(A) being
\* []<>~(ENABLED <<A>>_vars) \/ []<><<A>>_vars, with VerifyAwaitsClear for the
\* enabling condition: every such call has a continuation for every answer,
\* and the continuation changes calls or runs.
CallsReturn ==
    /\ WF_vars(AnsweredElsewhere)
    /\ ([]<>(~VerifyAwaitsClear) \/ []<><<VerifyCleared>>_vars)

SpecLive == Init /\ [][NextLive]_vars /\ CallsReturn

\* C35: in the current page, if every remote call returns, every invocation of
\* onSendCode, onVerifyCode and onRespond that was started finishes, and when
\* no invocation is in flight busy is false (this covers the invocations that
\* return on a validation before their first remote call).
C35_HandlersFinish ==
    /\ [](variant = "A" => (HandlersInFlight = {} => ~busy))
    /\ (HandlersInFlight # {}) ~> (HandlersInFlight = {} /\ ~busy)

\* an onVerifyCode invocation returned on the length test of the code, after
\* its first remote call
C35_Witness ==
    /\ variant = "A" /\ step = "verifyCode" /\ errorText = E_OTP_LEN
    /\ HandlersInFlight = {} /\ ~busy
=============================================================================
